---- MODULE Spec2Model ----
(***************************************************************************)
(* Model of the Form3 account client (pkg/account/account.go): the         *)
(* operations Create, Fetch, Delete and DeleteVersion, the requests they   *)
(* hand to the transport (httpClient.Do) and the mapping of the transport  *)
(* outcome (error, or status / body / content length) to the returned      *)
(* record and error.                                                       *)
(*                                                                         *)
(* A call blocks inside httpClient.Do: pc names the function that is       *)
(* blocked there ("idle" when no call is running).  The transport's answer *)
(* is an input of the ...Return actions.                                   *)
(*                                                                         *)
(* Pointers are modelled as sequences of length at most one: <<>> is nil,  *)
(* <<x>> points to x.                                                      *)
(*                                                                         *)
(* Six specifications share the state:                                     *)
(*   Spec        the operations of a client in use, the transport          *)
(*               answering each request with any outcome;                  *)
(*   SpecConfig  NewClient: the environment (internal/config), the options *)
(*               (pkg/config) and the validation of the result;            *)
(*   SpecEnrich  one Do of the enriched http client                        *)
(*               (internal/requestenricher): context, hooks, send, clone;  *)
(*   SpecServer  the operations of a client in use against an accounts API *)
(*               that stores records by id;                                *)
(*   SpecEnrichedCalls  the operations of a client in use, each request    *)
(*               going through Do with the enrichment of the call;         *)
(*   SpecConcurrent  several callers using one client at the same time.    *)
(***************************************************************************)
EXTENDS Integers, Sequences, FiniteSets, TLC

VARIABLES config, pc, call, requests, responses, reads, closes, result

\* the account client and the call that runs on it
clientVars ==
    <<config, pc, call, requests, responses, reads, closes, result>>

\* construction of the client: the FORM3_ environment variables, the options
\* given to NewClient and what NewClient returned
VARIABLES env, options, newClient

configVars == <<env, options, newClient>>

\* one Do of the enriched http client: the enrichers it was given, its
\* position, the hooks and sends so far, the request it sent, the objects
\* its responses point to, what the send and Do returned, what the after
\* hook was handed and what the caller read from the returned body
VARIABLES enricher, doPc, events, request, heap, sent, hookArg, doResult,
          callerRead

enrichVars == <<enricher, doPc, events, request, heap, sent, hookArg,
                doResult, callerRead>>

\* the accounts API the client talks to: the records it stores by id,
\* whether it held a record under the id of the running call before that
\* call, and the call that it answered before the running one
VARIABLES server, existed, previous

serverVars == <<server, existed, previous>>

\* the callers of one client: the caller whose call the client variables
\* show, and the calls of the other callers where they stand
VARIABLES running, saved

callerVars == <<running, saved>>

vars == <<clientVars, configVars, enrichVars, serverVars, callerVars>>

----------------------------------------------------------------------------
(* Bounds of the model *)

\* UUIDs are 0..MaxUUID, 0 being uuid.Nil
MaxUUID == 2
\* versions of a record are 0..MaxVersion
MaxVersion == 1

\* longest list of options given to NewClient
MaxOptions == 2

\* callers that use one client at the same time
MaxCallers == 2

----------------------------------------------------------------------------
(* Values *)

NilUUID == 0
UUIDs == 0..MaxUUID
Versions == 0..MaxVersion

\* uuid.UUID.String(): the canonical text form of an identifier
UUIDString(u) ==
    IF u = NilUUID THEN "00000000-0000-0000-0000-000000000000"
    ELSE "uuid-" \o ToString(u)

accountsUrl == "/organisation/accounts"
accountsType == "accounts"

\* error values; NoErr is the nil error
NoErr == "nil"
ErrNilUuid == "accountID can't be nil UUID"
ErrAccountNotFound == "account not found"
ErrInvalidAccountVersion == "invalid account version"
ErrServerError == "server error"
ErrServerUnavailable == "server unavailable"
ErrUnexpectedServerResponse == "unexpected server response"
ErrInvalidRequest == "invalid request"

\* errors of the collaborators
EOF == "EOF"
ErrUnexpectedEOF == "unexpected EOF"
ErrSyntax == "invalid character 'o' looking for beginning of value"
ErrTransport == "http client error"
ErrTimeout == "context deadline exceeded"
ErrGenerate == "uuid generator error"
ErrParseUrl == "invalid URL escape"

StatusOK == 200
StatusCreated == 201
StatusNoContent == 204
StatusBadRequest == 400
StatusNotFound == 404
StatusConflict == 409
StatusTeapot == 418
StatusInternalServerError == 500
StatusBadGateway == 502
StatusServiceUnavailable == 503
StatusGatewayTimeout == 504

Statuses ==
    {StatusOK, StatusCreated, StatusNoContent, StatusBadRequest,
     StatusNotFound, StatusConflict, StatusTeapot,
     StatusInternalServerError, StatusBadGateway,
     StatusServiceUnavailable, StatusGatewayTimeout}

\* the caller's attributes are an opaque payload
AttributeValues == {"EUR", "GBP"}

\* the messages of an error body
ErrorMessages == {"invalid version", "backend error"}

----------------------------------------------------------------------------
(* Records and bodies *)

\* AccountData as built by Create and as decoded from a body
AccountData(id, org, type, version, attributes) ==
    [ID |-> id, OrganisationID |-> org, Type |-> type,
     Version |-> version, Attributes |-> attributes]

\* the zero value AccountData{}
ZeroAccountData == AccountData("", "", "", <<>>, <<>>)

\* a JSON object {"id":..,"organisation_id":..,"type":..,"version":..,
\* "attributes":..}; every key may be missing (<<>>)
JSONRecord(id, version) ==
    [id |-> id,
     organisation_id |-> IF id = <<>> THEN <<>> ELSE <<UUIDString(1)>>,
     type |-> IF id = <<>> THEN <<>> ELSE <<accountsType>>,
     version |-> version,
     attributes |-> IF id = <<>> THEN <<>> ELSE <<"EUR">>]

JSONRecords ==
    {JSONRecord(id, v) :
        id \in {<<>>, <<UUIDString(1)>>, <<UUIDString(MaxUUID)>>},
        v \in {<<>>} \cup {<<n>> : n \in Versions}}

\* a response body: no bytes at all, bytes that are no JSON ("oops"),
\* a JSON text cut short, or a JSON object with optional keys
\* "error_message" and "data"
Body(kind, msg, data) == [kind |-> kind, error_message |-> msg, data |-> data]

EmptyBody == Body("empty", <<>>, <<>>)
SyntaxBody == Body("syntax", <<>>, <<>>)
TruncatedBody == Body("truncated", <<>>, <<>>)

Bodies ==
    {EmptyBody, SyntaxBody, TruncatedBody}
    \cup {Body("object", <<m>>, <<>>) : m \in ErrorMessages}
    \cup {Body("object", <<>>, <<r>>) : r \in JSONRecords}
    \cup {Body("object", <<>>, <<>>)}

\* number of bytes of a body
BodyLen(body) ==
    CASE body.kind = "empty" -> 0
      [] body.kind = "syntax" -> 4
      [] body.kind = "truncated" -> 8
      [] OTHER -> 16

\* the declared length of a response: unknown (-1), not set (0), or the
\* number of bytes of the body
ContentLengths(body) == {-1, 0, BodyLen(body)}

Response(status, body, length) ==
    [err |-> NoErr, StatusCode |-> status, Body |-> body,
     ContentLength |-> length]

Responses ==
    UNION {{Response(s, b, n) : s \in Statuses, n \in ContentLengths(b)} :
              b \in Bodies}

\* httpClient.Do failed: no response, an error
TransportFailure ==
    [err |-> ErrTransport, StatusCode |-> 0, Body |-> EmptyBody,
     ContentLength |-> 0]

\* httpClient.Do failed on the request's deadline
TransportTimeout ==
    [err |-> ErrTimeout, StatusCode |-> 0, Body |-> EmptyBody,
     ContentLength |-> 0]

\* what httpClient.Do can return: an error, or a response
TransportOutcomes == {TransportFailure, TransportTimeout} \cup Responses

----------------------------------------------------------------------------
(* Results *)

Result(rec, err) == [rec |-> rec, err |-> err, panic |-> FALSE]
\* a run-time panic: the call returns nothing
Panic == [rec |-> <<>>, err |-> NoErr, panic |-> TRUE]
NoResult == Result(<<>>, NoErr)

----------------------------------------------------------------------------
(* Decoding of bodies *)

\* json.NewDecoder(body).Decode(&v): the error it reports
DecodeErr(body) ==
    CASE body.kind = "empty" -> EOF
      [] body.kind = "syntax" -> ErrSyntax
      [] body.kind = "truncated" -> ErrUnexpectedEOF
      [] OTHER -> NoErr

\* the AccountData a JSON object decodes to: a missing key leaves the
\* zero value of its field
DecodeAccountData(json) ==
    AccountData(IF json.id = <<>> THEN "" ELSE json.id[1],
                IF json.organisation_id = <<>> THEN ""
                ELSE json.organisation_id[1],
                IF json.type = <<>> THEN "" ELSE json.type[1],
                json.version,
                json.attributes)

\* getErrorResponse without the test for io.EOF
getErrorResponse_EOFIsError(body) ==
    IF DecodeErr(body) # NoErr
    THEN [msg |-> "", err |-> DecodeErr(body)]
    ELSE [msg |-> IF body.error_message = <<>> THEN ""
                  ELSE body.error_message[1],
          err |-> NoErr]

\* getErrorResponse that takes every decode error for a missing message
getErrorResponse_IgnoresDecodeErrors(body) ==
    IF DecodeErr(body) # NoErr
    THEN [msg |-> "", err |-> NoErr]
    ELSE [msg |-> IF body.error_message = <<>> THEN ""
                  ELSE body.error_message[1],
          err |-> NoErr]

\* getErrorResponse that returns the decoded message as its error
getErrorResponse_MessageAsError(body) ==
    IF DecodeErr(body) # NoErr
    THEN IF DecodeErr(body) = EOF
         THEN [msg |-> "", err |-> NoErr]
         ELSE [msg |-> "", err |-> DecodeErr(body)]
    ELSE [msg |-> IF body.error_message = <<>> THEN ""
                  ELSE body.error_message[1],
          err |-> IF body.error_message = <<>> THEN NoErr
                  ELSE body.error_message[1]]

\* getErrorResponse: the message of an {"error_message": ..} body; an
\* empty body is no error
getErrorResponse(body) ==
    IF DecodeErr(body) # NoErr
    THEN IF DecodeErr(body) = EOF
         THEN [msg |-> "", err |-> NoErr]
         ELSE [msg |-> "", err |-> DecodeErr(body)]
    ELSE [msg |-> IF body.error_message = <<>> THEN ""
                  ELSE body.error_message[1],
          err |-> NoErr]

\* bodyToAccountData that returns its container's record with the error
bodyToAccountData_RecordWithError(body) ==
    IF DecodeErr(body) # NoErr
    THEN [rec |-> <<ZeroAccountData>>, err |-> DecodeErr(body),
          panic |-> FALSE]
    ELSE Result(<<IF body.data = <<>> THEN ZeroAccountData
                  ELSE DecodeAccountData(body.data[1])>>, NoErr)

\* bodyToAccountData: the record of a {"data": record} body
bodyToAccountData(body) ==
    IF DecodeErr(body) # NoErr
    THEN Result(<<>>, DecodeErr(body))
    ELSE Result(<<IF body.data = <<>> THEN ZeroAccountData
                  ELSE DecodeAccountData(body.data[1])>>, NoErr)

Min(a, b) == IF a <= b THEN a ELSE b

\* resp.Body.Read(buf) with len(buf) = n >= 0 on an unread body: what an
\* io.Reader may return.  A reader at its end returns (0, EOF); a reader
\* that delivers its last bytes may report EOF with them (net/http's body)
\* or not (strings.Reader).
BodyRead(body, n) ==
    IF BodyLen(body) = 0
    THEN {[n |-> 0, err |-> EOF]}
    ELSE {[n |-> Min(n, BodyLen(body)), err |-> NoErr]}
         \cup (IF n >= BodyLen(body)
               THEN {[n |-> BodyLen(body), err |-> EOF]}
               ELSE {})

\* the tail of Create and Fetch for a status the switch does not name:
\* read the raw body into make([]byte, resp.ContentLength).  The set of
\* possible (result, read) pairs.
UnexpectedResponse(resp) ==
    IF resp.ContentLength < 0
    THEN {[res |-> Panic, read |-> <<>>]}
    ELSE {[res |-> IF r.err # NoErr THEN Result(<<>>, r.err)
                   ELSE Result(<<>>, ErrUnexpectedServerResponse),
           read |-> <<r>>] : r \in BodyRead(resp.Body, resp.ContentLength)}

Only(res) == {[res |-> res, read |-> <<>>]}

ServerErrorStatuses ==
    {StatusInternalServerError, StatusGatewayTimeout, StatusBadGateway}

\* CreateResults with 502 and 504 missing from the server-error case
CreateResults_Only500(out) ==
    IF out.err # NoErr THEN Only(Result(<<>>, out.err))
    ELSE CASE out.StatusCode = StatusBadRequest ->
                IF getErrorResponse(out.Body).err # NoErr
                THEN Only(Result(<<>>, getErrorResponse(out.Body).err))
                ELSE Only(Result(<<>>, ErrInvalidRequest))
           [] out.StatusCode = StatusInternalServerError ->
                IF getErrorResponse(out.Body).err # NoErr
                THEN Only(Result(<<>>, getErrorResponse(out.Body).err))
                ELSE Only(Result(<<>>, ErrServerError))
           [] out.StatusCode = StatusServiceUnavailable ->
                Only(Result(<<>>, ErrServerUnavailable))
           [] out.StatusCode = StatusCreated ->
                Only(bodyToAccountData(out.Body))
           [] OTHER -> UnexpectedResponse(out)

\* CreateResults that takes 409 for 201
CreateResults_ConflictIsCreated(out) ==
    IF out.err # NoErr THEN Only(Result(<<>>, out.err))
    ELSE CASE out.StatusCode = StatusBadRequest ->
                IF getErrorResponse(out.Body).err # NoErr
                THEN Only(Result(<<>>, getErrorResponse(out.Body).err))
                ELSE Only(Result(<<>>, ErrInvalidRequest))
           [] out.StatusCode \in ServerErrorStatuses ->
                IF getErrorResponse(out.Body).err # NoErr
                THEN Only(Result(<<>>, getErrorResponse(out.Body).err))
                ELSE Only(Result(<<>>, ErrServerError))
           [] out.StatusCode = StatusServiceUnavailable ->
                Only(Result(<<>>, ErrServerUnavailable))
           [] out.StatusCode \in {StatusCreated, StatusConflict} ->
                Only(bodyToAccountData(out.Body))
           [] OTHER -> UnexpectedResponse(out)

\* CreateResults that returns on 201 the record Create posted
CreateResults_ReturnsPostedRecord(out) ==
    IF out.err # NoErr THEN Only(Result(<<>>, out.err))
    ELSE CASE out.StatusCode = StatusBadRequest ->
                IF getErrorResponse(out.Body).err # NoErr
                THEN Only(Result(<<>>, getErrorResponse(out.Body).err))
                ELSE Only(Result(<<>>, ErrInvalidRequest))
           [] out.StatusCode \in ServerErrorStatuses ->
                IF getErrorResponse(out.Body).err # NoErr
                THEN Only(Result(<<>>, getErrorResponse(out.Body).err))
                ELSE Only(Result(<<>>, ErrServerError))
           [] out.StatusCode = StatusServiceUnavailable ->
                Only(Result(<<>>, ErrServerUnavailable))
           [] out.StatusCode = StatusCreated ->
                Only(Result(<<requests[1].Body[1].data>>, NoErr))
           [] OTHER -> UnexpectedResponse(out)

\* Create after a.post returned: the possible (result, read) pairs
CreateResults(out) ==
    IF out.err # NoErr THEN Only(Result(<<>>, out.err))
    ELSE CASE out.StatusCode = StatusBadRequest ->
                IF getErrorResponse(out.Body).err # NoErr
                THEN Only(Result(<<>>, getErrorResponse(out.Body).err))
                ELSE Only(Result(<<>>, ErrInvalidRequest))
           [] out.StatusCode \in ServerErrorStatuses ->
                IF getErrorResponse(out.Body).err # NoErr
                THEN Only(Result(<<>>, getErrorResponse(out.Body).err))
                ELSE Only(Result(<<>>, ErrServerError))
           [] out.StatusCode = StatusServiceUnavailable ->
                Only(Result(<<>>, ErrServerUnavailable))
           [] out.StatusCode = StatusCreated ->
                Only(bodyToAccountData(out.Body))
           [] OTHER -> UnexpectedResponse(out)

\* FetchResults that reports a failed send as an unavailable server
FetchResults_WrapsTransportError(out) ==
    IF out.err # NoErr THEN Only(Result(<<>>, ErrServerUnavailable))
    ELSE CASE out.StatusCode = StatusNotFound ->
                Only(Result(<<>>, ErrAccountNotFound))
           [] out.StatusCode \in ServerErrorStatuses ->
                IF getErrorResponse(out.Body).err # NoErr
                THEN Only(Result(<<>>, getErrorResponse(out.Body).err))
                ELSE Only(Result(<<>>, ErrServerError))
           [] out.StatusCode = StatusServiceUnavailable ->
                Only(Result(<<>>, ErrServerUnavailable))
           [] out.StatusCode = StatusOK ->
                Only(bodyToAccountData(out.Body))
           [] OTHER -> UnexpectedResponse(out)

\* FetchResults that decodes an error body on 404 as on 500
FetchResults_NotFoundDecodesBody(out) ==
    IF out.err # NoErr THEN Only(Result(<<>>, out.err))
    ELSE CASE out.StatusCode = StatusNotFound ->
                IF getErrorResponse(out.Body).err # NoErr
                THEN Only(Result(<<>>, getErrorResponse(out.Body).err))
                ELSE Only(Result(<<>>, ErrAccountNotFound))
           [] out.StatusCode \in ServerErrorStatuses ->
                IF getErrorResponse(out.Body).err # NoErr
                THEN Only(Result(<<>>, getErrorResponse(out.Body).err))
                ELSE Only(Result(<<>>, ErrServerError))
           [] out.StatusCode = StatusServiceUnavailable ->
                Only(Result(<<>>, ErrServerUnavailable))
           [] out.StatusCode = StatusOK ->
                Only(bodyToAccountData(out.Body))
           [] OTHER -> UnexpectedResponse(out)

\* Fetch after a.get returned: the possible (result, read) pairs
FetchResults(out) ==
    IF out.err # NoErr THEN Only(Result(<<>>, out.err))
    ELSE CASE out.StatusCode = StatusNotFound ->
                Only(Result(<<>>, ErrAccountNotFound))
           [] out.StatusCode \in ServerErrorStatuses ->
                IF getErrorResponse(out.Body).err # NoErr
                THEN Only(Result(<<>>, getErrorResponse(out.Body).err))
                ELSE Only(Result(<<>>, ErrServerError))
           [] out.StatusCode = StatusServiceUnavailable ->
                Only(Result(<<>>, ErrServerUnavailable))
           [] out.StatusCode = StatusOK ->
                Only(bodyToAccountData(out.Body))
           [] OTHER -> UnexpectedResponse(out)

\* DeleteVersionResult without the case for 409
DeleteVersionResult_NoConflictCase(out) ==
    IF out.err # NoErr THEN Result(<<>>, out.err)
    ELSE CASE out.StatusCode = StatusNotFound ->
                Result(<<>>, ErrAccountNotFound)
           [] out.StatusCode \in ServerErrorStatuses ->
                IF getErrorResponse(out.Body).err # NoErr
                THEN Result(<<>>, getErrorResponse(out.Body).err)
                ELSE Result(<<>>, ErrServerError)
           [] out.StatusCode = StatusServiceUnavailable ->
                Result(<<>>, ErrServerUnavailable)
           [] out.StatusCode = StatusNoContent ->
                Result(<<>>, NoErr)
           [] OTHER -> Result(<<>>, out.err)

\* DeleteVersionResult with the default branch of Create and Fetch
DeleteVersionResult_DefaultUnexpected(out) ==
    IF out.err # NoErr THEN Result(<<>>, out.err)
    ELSE CASE out.StatusCode = StatusNotFound ->
                Result(<<>>, ErrAccountNotFound)
           [] out.StatusCode = StatusConflict ->
                IF getErrorResponse(out.Body).err # NoErr
                THEN Result(<<>>, getErrorResponse(out.Body).err)
                ELSE Result(<<>>, ErrInvalidAccountVersion)
           [] out.StatusCode \in ServerErrorStatuses ->
                IF getErrorResponse(out.Body).err # NoErr
                THEN Result(<<>>, getErrorResponse(out.Body).err)
                ELSE Result(<<>>, ErrServerError)
           [] out.StatusCode = StatusServiceUnavailable ->
                Result(<<>>, ErrServerUnavailable)
           [] out.StatusCode = StatusNoContent ->
                Result(<<>>, NoErr)
           [] OTHER -> Result(<<>>, ErrUnexpectedServerResponse)

\* DeleteVersion after a.delete returned: the error it returns.  The
\* default branch returns the err of a.delete, which is nil there.
DeleteVersionResult(out) ==
    IF out.err # NoErr THEN Result(<<>>, out.err)
    ELSE CASE out.StatusCode = StatusNotFound ->
                Result(<<>>, ErrAccountNotFound)
           [] out.StatusCode = StatusConflict ->
                IF getErrorResponse(out.Body).err # NoErr
                THEN Result(<<>>, getErrorResponse(out.Body).err)
                ELSE Result(<<>>, ErrInvalidAccountVersion)
           [] out.StatusCode \in ServerErrorStatuses ->
                IF getErrorResponse(out.Body).err # NoErr
                THEN Result(<<>>, getErrorResponse(out.Body).err)
                ELSE Result(<<>>, ErrServerError)
           [] out.StatusCode = StatusServiceUnavailable ->
                Result(<<>>, ErrServerUnavailable)
           [] out.StatusCode = StatusNoContent ->
                Result(<<>>, NoErr)
           [] OTHER -> Result(<<>>, out.err)

\* DeleteVersionArg that forgets the fetched version
DeleteVersionArg_AlwaysZero(acc) == 0

\* the version Delete passes on: that of the fetched record, 0 if it has
\* none (versions are non-negative, so uint(v) = v)
DeleteVersionArg(acc) ==
    IF acc.Version # <<>> THEN acc.Version[1] ELSE 0

----------------------------------------------------------------------------
(* Requests *)

BaseUrls == {"testhost", "%zz"}

\* http.NewRequest fails on a URL that does not parse
NewRequestErr(baseUrl) == IF baseUrl = "%zz" THEN ErrParseUrl ELSE NoErr

Request(method, id, version, body) ==
    [Method |-> method,
     URL |-> [base |-> config.BaseUrl[1], path |-> accountsUrl,
              id |-> id, version |-> version],
     Body |-> body]

\* a.get(accountsUrl/accountID)
getRequest(accountID) == Request("GET", <<UUIDString(accountID)>>, <<>>, <<>>)

\* a.post(acc): the record wrapped as {"data": acc}
postRequest(acc) == Request("POST", <<>>, <<>>, <<[data |-> acc]>>)

\* a.delete that asks for version 0 whatever the version
deleteRequest_VersionZero(accountID, version) ==
    Request("DELETE", <<UUIDString(accountID)>>, <<0>>, <<>>)

\* a.delete(accountsUrl/accountID?version=version)
deleteRequest(accountID, version) ==
    Request("DELETE", <<UUIDString(accountID)>>, <<version>>, <<>>)

\* NewAccount without the type
NewAccount_NoType(newID, attributes) ==
    AccountData(UUIDString(newID), UUIDString(config.OrganisationID[1]),
                "", <<>>, <<attributes>>)

\* NewAccount that starts the record at version 0
NewAccount_WithVersion(newID, attributes) ==
    AccountData(UUIDString(newID), UUIDString(config.OrganisationID[1]),
                accountsType, <<0>>, <<attributes>>)

\* the record Create builds: no version
NewAccount(newID, attributes) ==
    AccountData(UUIDString(newID), UUIDString(config.OrganisationID[1]),
                accountsType, <<>>, <<attributes>>)

----------------------------------------------------------------------------
(* Configuration: internal/config, pkg/config and NewClient *)

ErrBaseUrlNotConfigured == "baseUrl not configured"
ErrOrganisationIDNotConfigured == "organisationID not configured"

\* the envDefault values; durations are in seconds
DefaultTimeout == 5
DefaultMaxConns == 100
DefaultIdleConnTimeout == 90

\* MaxConns is an int, the other fields are pointers
ClientConfig(organisationID, baseUrl, timeout, maxConns, idleConnTimeout) ==
    [OrganisationID |-> organisationID, BaseUrl |-> baseUrl,
     Timeout |-> timeout, MaxConns |-> maxConns,
     IdleConnTimeout |-> idleConnTimeout]

\* cfg := ClientConfig{}
ZeroConfig == ClientConfig(<<>>, <<>>, <<>>, 0, <<>>)

\* the FORM3_ variables: <<>> when unset, <<v>> when set to (the text of) v
Envs ==
    [ORGANISATION_ID : {<<>>} \cup {<<u>> : u \in UUIDs},
     BASE_URL : {<<>>, <<"envhost">>},
     TIMEOUT : {<<>>, <<42>>},
     MAX_CONNS : {<<>>, <<42>>},
     IDLE_CONN_TIMEOUT : {<<>>, <<42>>}]

NoEnv ==
    [ORGANISATION_ID |-> <<>>, BASE_URL |-> <<>>, TIMEOUT |-> <<>>,
     MAX_CONNS |-> <<>>, IDLE_CONN_TIMEOUT |-> <<>>]

\* NewConfig: env.Parse sets a field from its variable, or from its
\* envDefault when the variable is unset, and leaves it zero without both
NewConfig(e) ==
    ClientConfig(e.ORGANISATION_ID,
                 e.BASE_URL,
                 IF e.TIMEOUT = <<>> THEN <<DefaultTimeout>> ELSE e.TIMEOUT,
                 IF e.MAX_CONNS = <<>> THEN DefaultMaxConns
                                       ELSE e.MAX_CONNS[1],
                 IF e.IDLE_CONN_TIMEOUT = <<>> THEN <<DefaultIdleConnTimeout>>
                                               ELSE e.IDLE_CONN_TIMEOUT)

\* An Option is a func(*ClientConfig); it is modelled by its name and its
\* argument (str for a string, num for a number or an identifier).
Option(name, str, num) == [name |-> name, str |-> str, num |-> num]

WithBaseUrl(baseUrl) == Option("WithBaseUrl", baseUrl, 0)

WithTimeout(timeout) == Option("WithTimeout", "", timeout)

WithMaxConns(maxConn) == Option("WithMaxConns", "", maxConn)

WithIdleConnTimeout(idleConnTimeout) ==
    Option("WithIdleConnTimeout", "", idleConnTimeout)

WithOrganisationID(organisationID) ==
    Option("WithOrganisationID", "", organisationID)

\* opt(c): the assignment the option makes
ApplyOption(c, opt) ==
    CASE opt.name = "WithBaseUrl" -> [c EXCEPT !.BaseUrl = <<opt.str>>]
      [] opt.name = "WithTimeout" -> [c EXCEPT !.Timeout = <<opt.num>>]
      [] opt.name = "WithMaxConns" -> [c EXCEPT !.MaxConns = opt.num]
      [] opt.name = "WithIdleConnTimeout" ->
            [c EXCEPT !.IdleConnTimeout = <<opt.num>>]
      [] opt.name = "WithOrganisationID" ->
            [c EXCEPT !.OrganisationID = <<opt.num>>]

RECURSIVE ApplyOptions_FirstWins(_, _)
\* ApplyOptions that runs the options from the last to the first
ApplyOptions_FirstWins(c, opts) ==
    IF opts = <<>> THEN c
    ELSE ApplyOption(ApplyOptions_FirstWins(c, Tail(opts)), Head(opts))

RECURSIVE ApplyOptions(_, _)
\* for _, opt := range options { opt(c) }
ApplyOptions(c, opts) ==
    IF opts = <<>> THEN c
    ELSE ApplyOptions(ApplyOption(c, Head(opts)), Tail(opts))

\* the values the options are given
OptionValues ==
    {WithBaseUrl(b) : b \in BaseUrls \cup {""}}
    \cup {WithOrganisationID(o) : o \in UUIDs}
    \cup {WithTimeout(2), WithMaxConns(2), WithIdleConnTimeout(2)}

RECURSIVE OptionLists(_)
\* the option lists of length at most n
OptionLists(n) ==
    IF n = 0 THEN {<<>>}
    ELSE OptionLists(n - 1)
         \cup {Append(l, o) : l \in OptionLists(n - 1), o \in OptionValues}

\* NewClient that checks the configuration before the options are applied
NewClientResult_ChecksBeforeOptions(e, opts) ==
    LET cfg == NewConfig(e) IN
    IF cfg.BaseUrl = <<>> \/ cfg.BaseUrl[1] = ""
    THEN [config |-> <<>>, err |-> ErrBaseUrlNotConfigured]
    ELSE IF cfg.OrganisationID = <<>> \/ cfg.OrganisationID[1] = NilUUID
    THEN [config |-> <<>>, err |-> ErrOrganisationIDNotConfigured]
    ELSE [config |-> <<ApplyOptions(cfg, opts)>>, err |-> NoErr]

\* NewClient(options...): the configuration of the client it returns (<<>>
\* for a nil client) and its error
NewClientResult(e, opts) ==
    LET cfg == ApplyOptions(NewConfig(e), opts) IN
    IF cfg.BaseUrl = <<>> \/ cfg.BaseUrl[1] = ""
    THEN [config |-> <<>>, err |-> ErrBaseUrlNotConfigured]
    ELSE IF cfg.OrganisationID = <<>> \/ cfg.OrganisationID[1] = NilUUID
    THEN [config |-> <<>>, err |-> ErrOrganisationIDNotConfigured]
    ELSE [config |-> <<cfg>>, err |-> NoErr]

----------------------------------------------------------------------------
(* Enrichment transport: internal/requestenricher *)

\* what a caller's BeforeHook does
BeforeHooks == {"Record", "Panic"}

\* what a caller's AfterHook does with the response r it is handed
AfterHooks ==
    {"Inspect", "ReadBody", "CloseBody", "SetStatusCode", "SetHeader",
     "SetTrailer", "ReplaceMaps", "MutateAll", "Panic"}

\* func() {} and func(*http.Response) {}
DefaultHook == "func{}"

RequestEnricher(ctx, beforeHook, afterHook) ==
    [Ctx |-> ctx, BeforeHook |-> beforeHook, AfterHook |-> afterHook]

RequestEnrichers ==
    {RequestEnricher(c, b, a) :
        c \in {<<>>, <<"ctx">>},
        b \in {<<>>} \cup {<<h>> : h \in BeforeHooks},
        a \in {<<>>} \cup {<<h>> : h \in AfterHooks}}

\* the variadic argument of Do: none, one, or one followed by another
EnricherLists ==
    {<<>>} \cup {<<e>> : e \in RequestEnrichers}
    \cup {<<e, RequestEnricher(<<"ctx2">>, <<"Record">>, <<"MutateAll">>)>> :
             e \in RequestEnrichers}

\* getCtx that takes the context of the last enrichment
getCtx_LastEnrichment(en) ==
    IF Len(en) = 0 \/ en[Len(en)].Ctx = <<>>
    THEN "context.TODO" ELSE en[Len(en)].Ctx[1]

getCtx(en) ==
    IF Len(en) = 0 \/ en[1].Ctx = <<>> THEN "context.TODO" ELSE en[1].Ctx[1]

\* getBeforeHook that never takes the caller's hook
getBeforeHook_AlwaysDefault(en) == DefaultHook

getBeforeHook(en) ==
    IF Len(en) = 0 \/ en[1].BeforeHook = <<>>
    THEN DefaultHook ELSE en[1].BeforeHook[1]

getAfterHook(en) ==
    IF Len(en) = 0 \/ en[1].AfterHook = <<>>
    THEN DefaultHook ELSE en[1].AfterHook[1]

\* An io.ReadCloser: its bytes, how many were read, whether it was closed.
Stream(data) == [data |-> data, pos |-> 0, closed |-> FALSE]

\* the bytes a reader still gets from the stream
Remaining(stream) == SubSeq(stream.data, stream.pos + 1, Len(stream.data))

\* the stream after io.ReadAll
Drained(stream) == [stream EXCEPT !.pos = Len(stream.data)]

\* An http.Response holds its header map, its trailer map and its body by
\* reference: Header, Trailer and Body name objects of the heap ("nil" is
\* the nil map).  StatusCode and ContentLength stand for the scalar fields.
HttpResponse(status, header, body, length, trailer) ==
    [StatusCode |-> status, Header |-> header, Body |-> body,
     ContentLength |-> length, Trailer |-> trailer]

\* the response bodies the server sends, as bytes
Payloads == {<<>>, <<"{", "}">>}

\* what c.client.Do hands back after a send that succeeded: the contents of
\* the response (Trailer <<>> is a nil map)
SentResponses ==
    {[StatusCode |-> s, Header |-> [ContentType |-> "application/json"],
      Body |-> b, ContentLength |-> Len(b), Trailer |-> t] :
        s \in {StatusOK, StatusServiceUnavailable},
        b \in Payloads,
        t \in {<<>>, <<[Expires |-> "never"]>>}}

\* the returns of c.client.Do: an error (with a response only when a
\* redirect was refused), or a response
SendOutcomes ==
    {[resp |-> <<>>, err |-> ErrTransport],
     [resp |-> <<>>, err |-> ErrTimeout]}
    \cup {[resp |-> <<r>>, err |-> "stopped after 10 redirects"] :
             r \in {x \in SentResponses : x.Body = <<>> /\ x.Trailer = <<>>}}
    \cup {[resp |-> <<r>>, err |-> NoErr] : r \in SentResponses}

NoHeap ==
    [Header |-> [ContentType |-> ""], Trailer |-> [Expires |-> ""],
     Body |-> Stream(<<>>), CloneBody |-> Stream(<<>>)]

\* the objects of a response that was received, and those cloneResponse
\* makes: bytes.NewReader([]byte{}) in a NopCloser
Received(r) ==
    [Header |-> r.Header,
     Trailer |-> IF r.Trailer = <<>> THEN NoHeap.Trailer ELSE r.Trailer[1],
     Body |-> Stream(r.Body),
     CloneBody |-> Stream(<<>>)]

\* resp as c.client.Do returns it
Original(r) ==
    HttpResponse(r.StatusCode, "Header", "Body", r.ContentLength,
                 IF r.Trailer = <<>> THEN "nil" ELSE "Trailer")

\* cloneResponse that copies the Body field as well
cloneResponse_SharesBody(resp) ==
    HttpResponse(resp.StatusCode, resp.Header, resp.Body,
                 resp.ContentLength, resp.Trailer)

\* cloneResponse: a new struct with the fields of resp, but for Body
cloneResponse(resp) ==
    HttpResponse(resp.StatusCode, resp.Header, "CloneBody",
                 resp.ContentLength, resp.Trailer)

\* the contents a holder of response r sees in heap h
Seen(r, h) ==
    [StatusCode |-> r.StatusCode,
     Header |-> h[r.Header],
     Body |-> Remaining(h[r.Body]),
     ContentLength |-> r.ContentLength,
     Trailer |-> IF r.Trailer = "nil" THEN <<>> ELSE <<h[r.Trailer]>>]

\* The run of an after hook on r in heap h: whether it panics, the heap it
\* leaves, and the bytes it read from r.Body.  An assignment to a field of
\* r changes the struct the hook holds and nothing of the heap; a write to
\* the nil Trailer map panics.
RunAfterHook(hook, r, h) ==
    LET ran(h2, read) == [panic |-> FALSE, heap |-> h2, read |-> read]
        panicked(h2) == [panic |-> TRUE, heap |-> h2, read |-> <<>>]
        headerSet == [h EXCEPT ![r.Header].ContentType = "text/hook"]
        trailerSet(h2) == [h2 EXCEPT ![r.Trailer].Expires = "hook"]
        bodyRead(h2) == [h2 EXCEPT ![r.Body] = Drained(h2[r.Body])]
        bodyClosed(h2) == [h2 EXCEPT ![r.Body].closed = TRUE]
    IN CASE hook \in {DefaultHook, "Inspect", "SetStatusCode", "ReplaceMaps"} ->
               ran(h, <<>>)
         [] hook = "ReadBody" -> ran(bodyRead(h), Remaining(h[r.Body]))
         [] hook = "CloseBody" -> ran(bodyClosed(h), <<>>)
         [] hook = "SetHeader" -> ran(headerSet, <<>>)
         [] hook = "SetTrailer" ->
               IF r.Trailer = "nil" THEN panicked(h)
               ELSE ran(trailerSet(h), <<>>)
         [] hook = "MutateAll" ->
               IF r.Trailer = "nil"
               THEN panicked(bodyClosed(bodyRead(headerSet)))
               ELSE ran(trailerSet(bodyClosed(bodyRead(headerSet))),
                        Remaining(h[r.Body]))
         [] hook = "Panic" -> panicked(h)

NoRequest == [ctx |-> "none"]

NoSend == [resp |-> <<>>, err |-> NoErr]

\* (*http.Response, error) of Do; resp is <<>> for nil
DoResult(resp, err) == [resp |-> resp, err |-> err]

\* no Do is running and none has run
EnrichInit ==
    /\ enricher = <<>>
    /\ doPc = "idle"
    /\ events = <<>>
    /\ request = NoRequest
    /\ heap = NoHeap
    /\ sent = NoSend
    /\ hookArg = <<>>
    /\ doResult = DoResult(<<>>, NoErr)
    /\ callerRead = <<>>

----------------------------------------------------------------------------
(* The accounts API: a server that stores records by id *)

AccountIDs == {UUIDString(u) : u \in UUIDs}

\* no record for any id
EmptyStore == [id \in AccountIDs |-> <<>>]

\* the stores a client can find: no record, or under one id a record, with
\* a version or without one
Stores ==
    {EmptyStore}
    \cup {[EmptyStore EXCEPT ![id] = <<JSONRecord(<<id>>, version)>>] :
             id \in AccountIDs,
             version \in {<<>>} \cup {<<n>> : n \in Versions}}

\* json.NewEncoder(buf).Encode: the JSON object of an AccountData; a nil
\* Version or Attributes leaves its key out
EncodeAccountData(acc) ==
    [id |-> <<acc.ID>>,
     organisation_id |-> <<acc.OrganisationID>>,
     type |-> <<acc.Type>>,
     version |-> acc.Version,
     attributes |-> acc.Attributes]

\* the version of a stored record; a record without one counts as version 0
StoredVersion(rec) == IF rec.version = <<>> THEN 0 ELSE rec.version[1]

ErrorBody(msg) == Body("object", <<msg>>, <<>>)

DataBody(rec) == Body("object", <<>>, <<rec>>)

ServerResponse(status, body) == Response(status, body, BodyLen(body))

\* POST /organisation/accounts: stores the record under its id at version
\* 0 and answers 201 with it; 409 when the id is taken
ServerCreate(store, req) ==
    LET rec == EncodeAccountData(req.Body[1].data)
        stored == [rec EXCEPT !.version = <<0>>]
    IN IF store[rec.id[1]] # <<>>
       THEN [store |-> store,
             resp |-> ServerResponse(StatusConflict,
                                     ErrorBody("duplicate id"))]
       ELSE [store |-> [store EXCEPT ![rec.id[1]] = <<stored>>],
             resp |-> ServerResponse(StatusCreated, DataBody(stored))]

\* GET /organisation/accounts/{id}: 200 with the record, 404 without one
ServerFetch(store, req) ==
    LET id == req.URL.id[1] IN
    IF store[id] = <<>>
    THEN [store |-> store,
          resp |-> ServerResponse(StatusNotFound, ErrorBody("not found"))]
    ELSE [store |-> store,
          resp |-> ServerResponse(StatusOK, DataBody(store[id][1]))]

\* DELETE /organisation/accounts/{id}?version={n}: 404 without a record,
\* 409 on another version, else the record is removed and the answer is 204
ServerDelete(store, req) ==
    LET id == req.URL.id[1] IN
    IF store[id] = <<>>
    THEN [store |-> store,
          resp |-> ServerResponse(StatusNotFound, EmptyBody)]
    ELSE IF StoredVersion(store[id][1]) # req.URL.version[1]
    THEN [store |-> store,
          resp |-> ServerResponse(StatusConflict,
                                  ErrorBody("invalid version"))]
    ELSE [store |-> [store EXCEPT ![id] = <<>>],
          resp |-> ServerResponse(StatusNoContent, EmptyBody)]

ServerHandle(store, req) ==
    CASE req.Method = "POST" -> ServerCreate(store, req)
      [] req.Method = "GET" -> ServerFetch(store, req)
      [] req.Method = "DELETE" -> ServerDelete(store, req)

\* the id a request is about
RequestID(req) ==
    IF req.Method = "POST" THEN req.Body[1].data.ID ELSE req.URL.id[1]

----------------------------------------------------------------------------
(* State *)

Call(op, accountID, version, attributes, generated) ==
    [op |-> op, accountID |-> accountID, version |-> version,
     attributes |-> attributes, generated |-> generated]

NoCall == Call("none", NilUUID, 0, <<>>, <<>>)

\* the callers of the client
Callers == 1..MaxCallers

\* the locals of a caller that has not called yet
NoFrame ==
    [pc |-> "idle", call |-> NoCall, requests |-> <<>>, responses |-> <<>>,
     reads |-> <<>>, closes |-> <<>>, result |-> NoResult]

\* one caller, the others have not called yet
CallersInit ==
    /\ running = 1
    /\ saved = [c \in Callers |-> NoFrame]

\* what generateUUID can return
Generated == {[id |-> u, err |-> NoErr] : u \in UUIDs}
             \cup {[id |-> NilUUID, err |-> ErrGenerate]}

\* the options of a client in use: NewClient(WithBaseUrl(b),
\* WithOrganisationID(o)) with no environment variable set
ClientOptions ==
    {<<WithBaseUrl(b), WithOrganisationID(o)>> :
        b \in BaseUrls, o \in UUIDs \ {NilUUID}}

\* the configurations of the clients in use
Configs == {NewClientResult(NoEnv, opts).config[1] : opts \in ClientOptions}

InitClient ==
    /\ env = NoEnv
    /\ options \in ClientOptions
    /\ config = ApplyOptions(NewConfig(env), options)
    /\ newClient = NewClientResult(env, options)
    /\ EnrichInit
    /\ CallersInit
    /\ pc = "idle"
    /\ call = NoCall
    /\ requests = <<>>
    /\ responses = <<>>
    /\ reads = <<>>
    /\ closes = <<>>
    /\ result = NoResult

\* a client in use, an accounts API with no record
Init ==
    /\ InitClient
    /\ server = EmptyStore
    /\ existed = FALSE
    /\ previous = <<>>

\* Close that runs on a failed send too
Close_AlsoOnFailedSend(out, k) == <<k>>

\* `defer resp.Body.Close()` of the function that got out as its k-th
\* response: it stands after the return on a failed send, so it is
\* registered only when the send succeeded, and then runs when the
\* function returns or panics
Close(out, k) == IF out.err # NoErr THEN <<>> ELSE <<k>>

\* the running call returns res to its caller, having dispatched reqs
Return(res, reqs) ==
    /\ result' = res
    /\ requests' = reqs
    /\ pc' = "idle"

\* function f hands req to httpClient.Do and blocks there
Dispatch(req, reqs, f) ==
    /\ requests' = Append(reqs, req)
    /\ result' = NoResult
    /\ pc' = f

\* FetchStart without its nil guard
FetchStart_NoNilGuard(accountID, reqs) ==
    IF NewRequestErr(config.BaseUrl[1]) # NoErr
    THEN Return(Result(<<>>, NewRequestErr(config.BaseUrl[1])), reqs)
    ELSE Dispatch(getRequest(accountID), reqs, "Fetch")

\* Fetch up to a.get: the nil guard, then the GET request
FetchStart(accountID, reqs) ==
    IF accountID = NilUUID
    THEN Return(Result(<<>>, ErrNilUuid), reqs)
    ELSE IF NewRequestErr(config.BaseUrl[1]) # NoErr
    THEN Return(Result(<<>>, NewRequestErr(config.BaseUrl[1])), reqs)
    ELSE Dispatch(getRequest(accountID), reqs, "Fetch")

\* DeleteVersion up to a.delete: the nil guard, then the DELETE request
DeleteVersionStart(accountID, version, reqs) ==
    IF accountID = NilUUID
    THEN Return(Result(<<>>, ErrNilUuid), reqs)
    ELSE IF NewRequestErr(config.BaseUrl[1]) # NoErr
    THEN Return(Result(<<>>, NewRequestErr(config.BaseUrl[1])), reqs)
    ELSE Dispatch(deleteRequest(accountID, version), reqs, "DeleteVersion")

\* DeleteAfterFetch that takes a missing account for already deleted
DeleteAfterFetch_NotFoundIsSuccess(res) ==
    IF res.panic
    THEN Return(Panic, requests)
    ELSE IF res.err = ErrAccountNotFound
    THEN Return(Result(<<>>, NoErr), requests)
    ELSE IF res.err # NoErr
    THEN Return(Result(<<>>, res.err), requests)
    ELSE DeleteVersionStart(call.accountID, DeleteVersionArg(res.rec[1]),
                            requests)

\* Delete after its Fetch returned res: the error of Fetch, or on to
\* DeleteVersion with the version of the fetched record
DeleteAfterFetch(res) ==
    IF res.panic
    THEN Return(Panic, requests)
    ELSE IF res.err # NoErr
    THEN Return(Result(<<>>, res.err), requests)
    ELSE DeleteVersionStart(call.accountID, DeleteVersionArg(res.rec[1]),
                            requests)

----------------------------------------------------------------------------
(* Operations *)

\* CreateStep that goes on when generateUUID failed
CreateStep_IgnoresGeneratorError(attributes, generated) ==
    /\ pc = "idle"
    /\ call' = Call("Create", NilUUID, 0, <<attributes>>, <<generated>>)
    /\ responses' = <<>>
    /\ reads' = <<>>
    /\ closes' = <<>>
    /\ IF NewRequestErr(config.BaseUrl[1]) # NoErr
       THEN Return(Result(<<>>, NewRequestErr(config.BaseUrl[1])), <<>>)
       ELSE Dispatch(postRequest(NewAccount(generated.id, attributes)),
                     <<>>, "Create")
    /\ UNCHANGED config

\* Create(attributes) up to a.post
CreateStep(attributes, generated) ==
    /\ pc = "idle"
    /\ call' = Call("Create", NilUUID, 0, <<attributes>>, <<generated>>)
    /\ responses' = <<>>
    /\ reads' = <<>>
    /\ closes' = <<>>
    /\ IF generated.err # NoErr
       THEN Return(Result(<<>>, generated.err), <<>>)
       ELSE IF NewRequestErr(config.BaseUrl[1]) # NoErr
       THEN Return(Result(<<>>, NewRequestErr(config.BaseUrl[1])), <<>>)
       ELSE Dispatch(postRequest(NewAccount(generated.id, attributes)),
                     <<>>, "Create")
    /\ UNCHANGED config

\* Create from the return of a.post
CreateReturnStep(out) ==
    /\ pc = "Create"
    /\ responses' = Append(responses, out)
    /\ closes' = closes \o Close(out, Len(responses) + 1)
    /\ \E r \in CreateResults(out) :
          /\ reads' = r.read
          /\ Return(r.res, requests)
    /\ UNCHANGED <<config, call>>

\* Fetch(accountID) up to a.get
FetchStep(accountID) ==
    /\ pc = "idle"
    /\ call' = Call("Fetch", accountID, 0, <<>>, <<>>)
    /\ responses' = <<>>
    /\ reads' = <<>>
    /\ closes' = <<>>
    /\ FetchStart(accountID, <<>>)
    /\ UNCHANGED config

\* Delete(accountID) up to the a.get of its Fetch
DeleteStep(accountID) ==
    /\ pc = "idle"
    /\ call' = Call("Delete", accountID, 0, <<>>, <<>>)
    /\ responses' = <<>>
    /\ reads' = <<>>
    /\ closes' = <<>>
    /\ FetchStart(accountID, <<>>)
    /\ UNCHANGED config

\* Fetch from the return of a.get; in a Delete, on to the a.delete of
\* DeleteVersion
FetchReturnStep(out) ==
    /\ pc = "Fetch"
    /\ responses' = Append(responses, out)
    /\ closes' = closes \o Close(out, Len(responses) + 1)
    /\ \E r \in FetchResults(out) :
          /\ reads' = r.read
          /\ IF call.op = "Fetch"
             THEN Return(r.res, requests)
             ELSE DeleteAfterFetch(r.res)
    /\ UNCHANGED <<config, call>>

\* DeleteVersion(accountID, version) up to a.delete
DeleteVersionStep(accountID, version) ==
    /\ pc = "idle"
    /\ call' = Call("DeleteVersion", accountID, version, <<>>, <<>>)
    /\ responses' = <<>>
    /\ reads' = <<>>
    /\ closes' = <<>>
    /\ DeleteVersionStart(accountID, version, <<>>)
    /\ UNCHANGED config

\* DeleteVersion from the return of a.delete
DeleteVersionReturnStep(out) ==
    /\ pc = "DeleteVersion"
    /\ responses' = Append(responses, out)
    /\ closes' = closes \o Close(out, Len(responses) + 1)
    /\ Return(DeleteVersionResult(out), requests)
    /\ UNCHANGED <<config, call, reads>>

\* The operations on a client in use; nothing else changes.
othersOfCall == <<configVars, enrichVars, serverVars, callerVars>>

Create(attributes, generated) ==
    CreateStep(attributes, generated) /\ UNCHANGED othersOfCall

CreateReturn(out) == CreateReturnStep(out) /\ UNCHANGED othersOfCall

Fetch(accountID) == FetchStep(accountID) /\ UNCHANGED othersOfCall

FetchReturn(out) == FetchReturnStep(out) /\ UNCHANGED othersOfCall

Delete(accountID) == DeleteStep(accountID) /\ UNCHANGED othersOfCall

DeleteVersion(accountID, version) ==
    DeleteVersionStep(accountID, version) /\ UNCHANGED othersOfCall

DeleteVersionReturn(out) ==
    DeleteVersionReturnStep(out) /\ UNCHANGED othersOfCall

Next ==
    \/ \E a \in AttributeValues, g \in Generated : Create(a, g)
    \/ \E out \in TransportOutcomes : CreateReturn(out)
    \/ \E id \in UUIDs : Fetch(id)
    \/ \E out \in TransportOutcomes : FetchReturn(out)
    \/ \E id \in UUIDs : Delete(id)
    \/ \E id \in UUIDs, v \in Versions : DeleteVersion(id, v)
    \/ \E out \in TransportOutcomes : DeleteVersionReturn(out)

Spec == Init /\ [][Next]_vars

----------------------------------------------------------------------------
(* Construction of a client *)

\* before NewClient has returned
NoClient == [config |-> <<>>, err |-> NoErr]

InitConfig ==
    /\ env \in Envs
    /\ options = <<>>
    /\ newClient = NoClient
    /\ EnrichInit
    /\ CallersInit
    /\ server = EmptyStore
    /\ existed = FALSE
    /\ previous = <<>>
    /\ config = ZeroConfig
    /\ pc = "new"
    /\ call = NoCall
    /\ requests = <<>>
    /\ responses = <<>>
    /\ reads = <<>>
    /\ closes = <<>>
    /\ result = NoResult

\* NewClient(opts...): config is its cfg, which is the configuration of the
\* client when it returns one
NewClient(opts) ==
    /\ pc = "new"
    /\ options' = opts
    /\ config' = ApplyOptions(NewConfig(env), opts)
    /\ newClient' = NewClientResult(env, opts)
    /\ pc' = IF NewClientResult(env, opts).err = NoErr
             THEN "idle" ELSE "failed"
    /\ UNCHANGED <<env, call, requests, responses, reads, closes, result>>
    /\ UNCHANGED <<enrichVars, serverVars, callerVars>>

NextConfig == \E opts \in OptionLists(MaxOptions) : NewClient(opts)

SpecConfig == InitConfig /\ [][NextConfig]_vars

----------------------------------------------------------------------------
(* One Do of the enriched http client *)

\* Do(req, en...) up to c.client.Do: the context is attached, the before
\* hook runs, the request is sent
Do(en) ==
    /\ doPc = "idle"
    /\ enricher' = en
    /\ LET hook == getBeforeHook(en)
           called == IF hook = DefaultHook THEN <<>> ELSE <<"BeforeHook">>
       IN IF hook = "Panic"
          THEN /\ events' = called \o <<"panic">>
               /\ request' = NoRequest
               /\ doPc' = "panicked"
          ELSE /\ events' = called \o <<"send">>
               /\ request' = [ctx |-> getCtx(en)]
               /\ doPc' = "send"
    /\ UNCHANGED <<heap, sent, hookArg, doResult, callerRead>>
    /\ UNCHANGED <<clientVars, configVars, serverVars, callerVars>>

\* Do from the return of c.client.Do: on an error it returns at once;
\* otherwise the after hook runs on the clone and resp is returned
SendReturn(out) ==
    /\ doPc = "send"
    /\ sent' = out
    /\ IF out.err # NoErr
       THEN /\ doResult' = DoResult(IF out.resp = <<>> THEN <<>>
                                    ELSE <<Original(out.resp[1])>>, out.err)
            /\ heap' = IF out.resp = <<>> THEN heap
                       ELSE Received(out.resp[1])
            /\ events' = events \o <<"return">>
            /\ doPc' = "returned"
            /\ UNCHANGED hookArg
       ELSE LET resp == Original(out.resp[1])
                enResp == cloneResponse(resp)
                hook == getAfterHook(enricher)
                run == RunAfterHook(hook, enResp, Received(out.resp[1]))
                called == IF hook = DefaultHook THEN <<>> ELSE <<"AfterHook">>
            IN /\ hookArg' = <<[seen |-> Seen(enResp, Received(out.resp[1])),
                                read |-> run.read]>>
               /\ heap' = run.heap
               /\ IF run.panic
                  THEN /\ events' = events \o called \o <<"panic">>
                       /\ doPc' = "panicked"
                       /\ UNCHANGED doResult
                  ELSE /\ events' = events \o called \o <<"return">>
                       /\ doPc' = "returned"
                       /\ doResult' = DoResult(<<resp>>, NoErr)
    /\ UNCHANGED <<enricher, request, callerRead>>
    /\ UNCHANGED <<clientVars, configVars, serverVars, callerVars>>

\* the caller of Do reads the body of the response it got
CallerRead ==
    /\ doPc = "returned"
    /\ doResult.err = NoErr
    /\ LET body == doResult.resp[1].Body IN
          /\ callerRead' = <<Remaining(heap[body])>>
          /\ heap' = [heap EXCEPT ![body] = Drained(heap[body])]
    /\ doPc' = "read"
    /\ UNCHANGED <<enricher, events, request, sent, hookArg, doResult>>
    /\ UNCHANGED <<clientVars, configVars, serverVars, callerVars>>

NextEnrich ==
    \/ \E en \in EnricherLists : Do(en)
    \/ \E out \in SendOutcomes : SendReturn(out)
    \/ CallerRead

SpecEnrich == Init /\ [][NextEnrich]_vars

----------------------------------------------------------------------------
(* The client against the accounts API *)

\* a call the server answered: the call, its result, the status of the last
\* answer, and whether the server held a record under its id before it
Entry == [call |-> call, result |-> result,
          status |-> responses[Len(responses)].StatusCode,
          existed |-> existed]

\* a new call starts: the call before it is remembered if the server
\* answered it
StartOnServer ==
    /\ previous' = IF Len(responses) >= 1 THEN <<Entry>> ELSE previous
    /\ UNCHANGED <<server, existed>>
    /\ UNCHANGED <<configVars, enrichVars, callerVars>>

CreateOnServer(attributes, generated) ==
    CreateStep(attributes, generated) /\ StartOnServer

FetchOnServer(accountID) == FetchStep(accountID) /\ StartOnServer

DeleteOnServer(accountID) == DeleteStep(accountID) /\ StartOnServer

DeleteVersionOnServer(accountID, version) ==
    DeleteVersionStep(accountID, version) /\ StartOnServer

\* what the server makes of the request the client blocks on
Handled == ServerHandle(server, requests[Len(requests)])

\* the server handles that request
Answer ==
    /\ server' = Handled.store
    /\ existed' = IF Len(requests) = 1
                  THEN server[RequestID(requests[1])] # <<>>
                  ELSE existed
    /\ UNCHANGED previous
    /\ UNCHANGED <<configVars, enrichVars, callerVars>>

\* the blocked function returns on the answer of the server
ServerCreateReturn ==
    pc = "Create" /\ CreateReturnStep(Handled.resp) /\ Answer

ServerFetchReturn ==
    pc = "Fetch" /\ FetchReturnStep(Handled.resp) /\ Answer

ServerDeleteVersionReturn ==
    pc = "DeleteVersion" /\ DeleteVersionReturnStep(Handled.resp) /\ Answer

InitServer ==
    /\ InitClient
    /\ server \in Stores
    /\ existed = FALSE
    /\ previous = <<>>

NextServer ==
    \/ \E a \in AttributeValues, g \in Generated : CreateOnServer(a, g)
    \/ ServerCreateReturn
    \/ \E id \in UUIDs : FetchOnServer(id)
    \/ ServerFetchReturn
    \/ \E id \in UUIDs : DeleteOnServer(id)
    \/ \E id \in UUIDs, v \in Versions : DeleteVersionOnServer(id, v)
    \/ ServerDeleteVersionReturn

SpecServer == InitServer /\ [][NextServer]_vars

----------------------------------------------------------------------------
(* Properties *)

\* the running call is op and has returned
Completed(op) == pc = "idle" /\ call.op = op

\* the first send of the call succeeded: a response came back
Responded == Len(responses) >= 1 /\ responses[1].err = NoErr

\* C1: Fetch, DeleteVersion (any version) and Delete called with the nil
\* UUID return ErrNilUuid and hand no request to the transport: such a call
\* never blocks in httpClient.Do, and it ends with no request dispatched and
\* no response received.
C1_NilIdentifierNoNetworkCall ==
    (call.op \in {"Fetch", "DeleteVersion", "Delete"}
        /\ call.accountID = NilUUID)
    => /\ pc = "idle"
       /\ result = Result(<<>>, ErrNilUuid)
       /\ requests = <<>>
       /\ responses = <<>>

C1_Witness ==
    /\ Completed("Delete")
    /\ call.accountID = NilUUID
    /\ result.err = ErrNilUuid
    /\ requests = <<>>

\* an error body that getErrorResponse accepts: no bytes, or a JSON object
DecodableOrEmpty(body) == body.kind \in {"empty", "object"}

\* the record a {"data": record} body carries, key by key: a key that is
\* present gives the field its value, a key that is missing leaves the
\* field empty
CarriesRecord(body, acc) ==
    /\ body.kind = "object"
    /\ body.data # <<>>
    /\ LET json == body.data[1] IN
          /\ acc.ID = (IF json.id = <<>> THEN "" ELSE json.id[1])
          /\ acc.OrganisationID = (IF json.organisation_id = <<>> THEN ""
                                   ELSE json.organisation_id[1])
          /\ acc.Type = (IF json.type = <<>> THEN "" ELSE json.type[1])
          /\ acc.Version = json.version
          /\ acc.Attributes = json.attributes

\* C3: Create, after a successful send: 201 returns the record decoded from
\* the {"data": record} body and no error; 400 with a decodable or empty
\* body fails with ErrInvalidRequest; 500, 502 and 504 with a decodable or
\* empty body fail with ErrServerError; 503 fails with ErrServerUnavailable;
\* every error comes with a nil record.
C3_CreateStatusMapping ==
    (Completed("Create") /\ Responded) =>
        LET resp == responses[1] IN
        /\ (resp.StatusCode = StatusCreated /\ resp.Body.kind = "object"
              /\ resp.Body.data # <<>>)
           => /\ result.err = NoErr
              /\ ~result.panic
              /\ Len(result.rec) = 1
              /\ CarriesRecord(resp.Body, result.rec[1])
        /\ (resp.StatusCode = StatusBadRequest
              /\ DecodableOrEmpty(resp.Body))
           => result = Result(<<>>, ErrInvalidRequest)
        /\ (resp.StatusCode \in {500, 502, 504}
              /\ DecodableOrEmpty(resp.Body))
           => result = Result(<<>>, ErrServerError)
        /\ resp.StatusCode = StatusServiceUnavailable
           => result = Result(<<>>, ErrServerUnavailable)
        /\ result.err # NoErr => result.rec = <<>>

C3_Witness ==
    /\ Completed("Create")
    /\ Responded
    /\ responses[1].StatusCode = StatusCreated
    /\ responses[1].Body.data # <<>>
    /\ result.err = NoErr
    /\ Len(result.rec) = 1
    /\ result.rec[1].ID = UUIDString(1)
    /\ result.rec[1].Version = <<1>>

\* a status that DeleteVersion's switch names
DeleteVersionStatuses == {204, 404, 409, 500, 502, 503, 504}

\* C7: DeleteVersion with a non-nil id, after a successful send, on a status
\* that is none of 204, 404, 409, 500, 502, 503, 504 returns the transport
\* error, which is nil there: the call reports success.
C7_DeleteVersionUnmappedStatusReturnsNil ==
    (Completed("DeleteVersion") /\ Responded
        /\ responses[1].StatusCode \notin DeleteVersionStatuses)
    => /\ call.accountID # NilUUID
       /\ result = Result(<<>>, NoErr)

C7_Witness ==
    /\ Completed("DeleteVersion")
    /\ Responded
    /\ responses[1].StatusCode = StatusBadRequest
    /\ responses[1].Body.kind = "object"
    /\ result.err = NoErr

\* the Fetch step of a Delete got a response that Fetch turns into a record
FetchSucceeded ==
    /\ Responded
    /\ responses[1].StatusCode = StatusOK
    /\ responses[1].Body.kind = "object"

\* the version of the record in a fetched body, 0 when it carries none
FetchedVersionOrZero(body) ==
    IF body.data # <<>> /\ body.data[1].version # <<>>
    THEN body.data[1].version[1]
    ELSE 0

\* what DeleteVersion alone returns on a transport outcome
DeleteVersionAlone(out) ==
    CASE out.err # NoErr -> out.err
      [] out.StatusCode = 404 -> ErrAccountNotFound
      [] out.StatusCode = 409 /\ DecodableOrEmpty(out.Body) ->
            ErrInvalidAccountVersion
      [] out.StatusCode \in {500, 502, 504} /\ DecodableOrEmpty(out.Body) ->
            ErrServerError
      [] out.StatusCode \in {409, 500, 502, 504} -> DecodeErr(out.Body)
      [] out.StatusCode = 503 -> ErrServerUnavailable
      [] OTHER -> NoErr

\* C8: Delete(id) is Fetch(id) followed by DeleteVersion(id, v): when the
\* Fetch succeeds, Delete has handed the transport exactly one GET for id
\* and then exactly one DELETE for id whose version parameter is the version
\* of the fetched record, 0 when the record has none; and Delete returns
\* what that DeleteVersion call returns.
C8_DeleteIsFetchThenDeleteVersion ==
    (call.op = "Delete" /\ FetchSucceeded) =>
        /\ Len(requests) = 2
        /\ requests[1].Method = "GET"
        /\ requests[1].URL.id = <<UUIDString(call.accountID)>>
        /\ requests[1].URL.version = <<>>
        /\ requests[2].Method = "DELETE"
        /\ requests[2].URL.id = <<UUIDString(call.accountID)>>
        /\ requests[2].URL.version =
              <<FetchedVersionOrZero(responses[1].Body)>>
        /\ pc \in {"DeleteVersion", "idle"}
        /\ pc = "idle" =>
              /\ Len(responses) = 2
              /\ result = Result(<<>>, DeleteVersionAlone(responses[2]))

C8_Witness ==
    /\ Completed("Delete")
    /\ FetchSucceeded
    /\ responses[1].Body.data # <<>>
    /\ responses[1].Body.data[1].version = <<1>>
    /\ Len(requests) = 2
    /\ requests[2].URL.version = <<1>>
    /\ Len(responses) = 2
    /\ responses[2].StatusCode = StatusNoContent
    /\ result.err = NoErr

\* the error Fetch returns on a transport outcome that makes it fail, given
\* what the read of the raw body reported
FetchError(out, read) ==
    CASE out.err # NoErr -> out.err
      [] out.StatusCode = 404 -> ErrAccountNotFound
      [] out.StatusCode \in {500, 502, 504} ->
            IF DecodableOrEmpty(out.Body) THEN ErrServerError
            ELSE DecodeErr(out.Body)
      [] out.StatusCode = 503 -> ErrServerUnavailable
      [] out.StatusCode = 200 -> DecodeErr(out.Body)
      [] OTHER -> IF read # <<>> /\ read[1].err # NoErr THEN read[1].err
                  ELSE ErrUnexpectedServerResponse

\* C9: when the Fetch step of Delete fails with an error (nil id, a request
\* that cannot be built, a transport failure, NotFound, ServerError,
\* ServerUnavailable, UnexpectedServerResponse, a decode or read failure),
\* Delete returns exactly that error and no DELETE request is dispatched.
C9_DeletePropagatesFetchError ==
    (call.op = "Delete" /\ ~FetchSucceeded) =>
        /\ \A i \in 1..Len(requests) : requests[i].Method # "DELETE"
        /\ pc \in {"Fetch", "idle"}
        /\ (pc = "idle" /\ ~result.panic) =>
              IF call.accountID = NilUUID
              THEN result = Result(<<>>, ErrNilUuid)
              ELSE IF responses = <<>>
              THEN result = Result(<<>>, ErrParseUrl) /\ requests = <<>>
              ELSE /\ Len(responses) = 1
                   /\ Len(requests) = 1
                   /\ result = Result(<<>>, FetchError(responses[1], reads))

C9_Witness ==
    /\ Completed("Delete")
    /\ Responded
    /\ responses[1].StatusCode = StatusNotFound
    /\ result = Result(<<>>, ErrAccountNotFound)
    /\ Len(requests) = 1
    /\ requests[1].Method = "GET"

\* C10: every request Create sends carries {"data": record} where the
\* record's id is the text of the identifier the generator returned for this
\* call, its organisation_id the text of the configured organisation id, its
\* type "accounts", its version absent and its attributes the caller's;
\* id, organisation_id and type are the same for every attributes value.
C10_CreateRequestRecord ==
    \A i \in 1..Len(requests) :
        requests[i].Method = "POST" =>
            /\ call.op = "Create"
            /\ Len(requests) = 1
            /\ call.generated[1].err = NoErr
            /\ requests[i].URL.id = <<>>
            /\ Len(requests[i].Body) = 1
            /\ DOMAIN requests[i].Body[1] = {"data"}
            /\ LET acc == requests[i].Body[1].data IN
                  /\ acc.ID = UUIDString(call.generated[1].id)
                  /\ acc.OrganisationID = UUIDString(config.OrganisationID[1])
                  /\ acc.Type = "accounts"
                  /\ acc.Version = <<>>
                  /\ acc.Attributes = call.attributes

C10_Witness ==
    /\ pc = "Create"
    /\ call.attributes = <<"GBP">>
    /\ call.generated[1].id = 2
    /\ config.OrganisationID = <<1>>
    /\ Len(requests) = 1
    /\ requests[1].Method = "POST"
    /\ requests[1].Body[1].data.ID = UUIDString(2)
    /\ requests[1].Body[1].data.Attributes = <<"GBP">>

\* the kind the error taxonomy lists for an error status of an operation,
\* ErrUnexpectedServerResponse for a status it does not list; "success" for
\* the status the operation succeeds on
DocumentedKind(op, status) ==
    CASE op = "Create" /\ status = 201 -> "success"
      [] op = "Fetch" /\ status = 200 -> "success"
      [] op = "DeleteVersion" /\ status = 204 -> "success"
      [] op = "Create" /\ status = 400 -> ErrInvalidRequest
      [] op \in {"Fetch", "DeleteVersion"} /\ status = 404 ->
            ErrAccountNotFound
      [] op = "DeleteVersion" /\ status = 409 -> ErrInvalidAccountVersion
      [] status \in {500, 502, 504} -> ErrServerError
      [] status = 503 -> ErrServerUnavailable
      [] OTHER -> ErrUnexpectedServerResponse

\* a call of Create, Fetch or DeleteVersion whose send succeeded has ended
AnsweredCall ==
    /\ pc = "idle"
    /\ call.op \in {"Create", "Fetch", "DeleteVersion"}
    /\ Responded

DecodesErrorBody(op, status) ==
    \/ status \in {500, 502, 504}
    \/ op = "Create" /\ status = 400
    \/ op = "DeleteVersion" /\ status = 409

C4_Original ==
    (Completed("Fetch") /\ call.accountID # NilUUID /\ Responded) =>
        LET resp == responses[1] IN
        CASE resp.StatusCode = 404 -> result = Result(<<>>, ErrAccountNotFound)
          [] resp.StatusCode \in {500, 502, 504} ->
                result = Result(<<>>, ErrServerError)
          [] resp.StatusCode = 503 ->
                result = Result(<<>>, ErrServerUnavailable)
          [] resp.StatusCode = 200 ->
                (resp.Body.kind = "object" /\ resp.Body.data # <<>>)
                => /\ result.err = NoErr
                   /\ Len(result.rec) = 1
                   /\ CarriesRecord(resp.Body, result.rec[1])
          [] OTHER -> result = Result(<<>>, ErrUnexpectedServerResponse)

\* C5 as stated: DeleteVersion with a non-nil id, after a successful send:
\* 404 fails with ErrAccountNotFound; 409 fails with
\* ErrInvalidAccountVersion; 500, 502 and 504 fail with ErrServerError; 503
\* fails with ErrServerUnavailable; 204 returns nil.
C5_Original ==
    (Completed("DeleteVersion") /\ call.accountID # NilUUID /\ Responded) =>
        LET resp == responses[1] IN
        /\ resp.StatusCode = 404 => result = Result(<<>>, ErrAccountNotFound)
        /\ resp.StatusCode = 409
           => result = Result(<<>>, ErrInvalidAccountVersion)
        /\ resp.StatusCode \in {500, 502, 504}
           => result = Result(<<>>, ErrServerError)
        /\ resp.StatusCode = 503
           => result = Result(<<>>, ErrServerUnavailable)
        /\ resp.StatusCode = 204 => result = Result(<<>>, NoErr)

\* C5 (amended): DeleteVersion with a non-nil id, after a successful send:
\* 404 fails with ErrAccountNotFound; 409 fails with
\* ErrInvalidAccountVersion and 500, 502 and 504 fail with ErrServerError
\* when the body is empty or decodable JSON, and with the decode error when
\* the body is not empty and not decodable; 503 fails with
\* ErrServerUnavailable; 204 returns nil.
C5_DeleteVersionStatusMapping ==
    (Completed("DeleteVersion") /\ call.accountID # NilUUID /\ Responded) =>
        LET resp == responses[1] IN
        /\ resp.StatusCode = 404 => result = Result(<<>>, ErrAccountNotFound)
        /\ resp.StatusCode = 409
           => result = Result(<<>>, IF DecodableOrEmpty(resp.Body)
                                    THEN ErrInvalidAccountVersion
                                    ELSE DecodeErr(resp.Body))
        /\ resp.StatusCode \in {500, 502, 504}
           => result = Result(<<>>, IF DecodableOrEmpty(resp.Body)
                                    THEN ErrServerError
                                    ELSE DecodeErr(resp.Body))
        /\ resp.StatusCode = 503
           => result = Result(<<>>, ErrServerUnavailable)
        /\ resp.StatusCode = 204 => result = Result(<<>>, NoErr)

C5_Witness ==
    /\ Completed("DeleteVersion")
    /\ call.accountID # NilUUID
    /\ Responded
    /\ responses[1].StatusCode = StatusConflict
    /\ responses[1].Body = Body("object", <<"invalid version">>, <<>>)
    /\ result = Result(<<>>, ErrInvalidAccountVersion)

\* the statuses the switch of Create and of Fetch names
MappedStatuses(op) ==
    IF op = "Create" THEN {201, 400, 500, 502, 503, 504}
    ELSE {200, 404, 500, 502, 503, 504}

\* C6 as stated: for Create and Fetch every response whose status is outside
\* the operation's mapped set makes the call fail with
\* ErrUnexpectedServerResponse, whatever the body and whatever the declared
\* content length.
C6_Original ==
    (pc = "idle" /\ call.op \in {"Create", "Fetch"} /\ Responded
        /\ responses[1].StatusCode \notin MappedStatuses(call.op))
    => result = Result(<<>>, ErrUnexpectedServerResponse)

\* the first send of the call failed: the transport returned an error
SendFailed == Len(responses) >= 1 /\ responses[1].err # NoErr

\* C11: when the transport send fails, Create, Fetch and DeleteVersion each
\* return exactly the error value the transport returned, not a kind of the
\* taxonomy, and Create and Fetch return a nil record.
C11_TransportFailurePropagated ==
    (pc = "idle" /\ call.op \in {"Create", "Fetch", "DeleteVersion"}
        /\ SendFailed)
    => /\ result.err = responses[1].err
       /\ result.err \in {ErrTransport, ErrTimeout}
       /\ result.rec = <<>>
       /\ ~result.panic
       /\ Len(responses) = 1
       /\ reads = <<>>

C11_Witness ==
    /\ Completed("Fetch")
    /\ SendFailed
    /\ responses[1] = TransportTimeout
    /\ result = Result(<<>>, ErrTimeout)

\* the classified kinds of the taxonomy
ClassifiedKinds ==
    {ErrNilUuid, ErrAccountNotFound, ErrInvalidAccountVersion,
     ErrServerError, ErrServerUnavailable, ErrUnexpectedServerResponse,
     ErrInvalidRequest}

\* C19: on every status whose handling decodes an error body (400 on
\* Create, 409 on DeleteVersion, 500/502/504 on Create, Fetch and
\* DeleteVersion): an empty body is 'no message available' and the call
\* fails with the kind of the status; a body that is not empty and not
\* decodable makes the call fail with the decode error, which is none of the
\* classified kinds.
C19_EmptyBodyIsNoMessage ==
    (AnsweredCall
        /\ \/ responses[1].StatusCode \in {500, 502, 504}
           \/ call.op = "Create" /\ responses[1].StatusCode = 400
           \/ call.op = "DeleteVersion" /\ responses[1].StatusCode = 409)
    => LET resp == responses[1] IN
       /\ resp.Body.kind = "empty" =>
             result = Result(<<>>,
                 CASE resp.StatusCode = 400 -> ErrInvalidRequest
                   [] resp.StatusCode = 409 -> ErrInvalidAccountVersion
                   [] OTHER -> ErrServerError)
       /\ resp.Body.kind \in {"syntax", "truncated"} =>
             /\ result.rec = <<>>
             /\ ~result.panic
             /\ result.err \in {ErrSyntax, ErrUnexpectedEOF}
             /\ result.err \notin ClassifiedKinds
             /\ result.err # NoErr

C19_Witness ==
    /\ Completed("DeleteVersion")
    /\ Responded
    /\ responses[1].StatusCode = StatusBadGateway
    /\ responses[1].Body = EmptyBody
    /\ result = Result(<<>>, ErrServerError)

\* C20: on the statuses for which no body is decoded the outcome does not
\* depend on the body: 503 makes Create, Fetch and DeleteVersion fail with
\* ErrServerUnavailable, and 404 makes Fetch and DeleteVersion fail with
\* ErrAccountNotFound, for every body and declared length.
C20_NoDecodeStatusesIgnoreBody ==
    AnsweredCall =>
        /\ responses[1].StatusCode = 503
           => result = Result(<<>>, ErrServerUnavailable) /\ reads = <<>>
        /\ (responses[1].StatusCode = 404
              /\ call.op \in {"Fetch", "DeleteVersion"})
           => result = Result(<<>>, ErrAccountNotFound) /\ reads = <<>>

C20_Witness ==
    /\ Completed("Fetch")
    /\ Responded
    /\ responses[1].StatusCode = StatusNotFound
    /\ responses[1].Body = SyntaxBody
    /\ result = Result(<<>>, ErrAccountNotFound)

----------------------------------------------------------------------------
(* Construction *)

\* NewClient has returned
Constructed == pc \in {"idle", "failed"}

\* the last option of the list with that name, <<>> when there is none
LastSetting(name) ==
    LET set == {i \in 1..Len(options) : options[i].name = name} IN
    IF set = {} THEN <<>>
    ELSE <<options[CHOOSE i \in set : \A j \in set : j <= i]>>

\* the value of a field: the last option that sets it, else the environment
\* variable, else the default (<<>> for absent)
EffectiveBaseUrl ==
    IF LastSetting("WithBaseUrl") # <<>>
    THEN <<LastSetting("WithBaseUrl")[1].str>>
    ELSE env.BASE_URL

EffectiveOrganisationID ==
    IF LastSetting("WithOrganisationID") # <<>>
    THEN <<LastSetting("WithOrganisationID")[1].num>>
    ELSE env.ORGANISATION_ID

EffectiveTimeout ==
    IF LastSetting("WithTimeout") # <<>>
    THEN LastSetting("WithTimeout")[1].num
    ELSE IF env.TIMEOUT # <<>> THEN env.TIMEOUT[1] ELSE 5

EffectiveMaxConns ==
    IF LastSetting("WithMaxConns") # <<>>
    THEN LastSetting("WithMaxConns")[1].num
    ELSE IF env.MAX_CONNS # <<>> THEN env.MAX_CONNS[1] ELSE 100

EffectiveIdleConnTimeout ==
    IF LastSetting("WithIdleConnTimeout") # <<>>
    THEN LastSetting("WithIdleConnTimeout")[1].num
    ELSE IF env.IDLE_CONN_TIMEOUT # <<>> THEN env.IDLE_CONN_TIMEOUT[1] ELSE 90

BaseUrlConfigured == EffectiveBaseUrl # <<>> /\ EffectiveBaseUrl[1] # ""

OrganisationIDConfigured ==
    EffectiveOrganisationID # <<>> /\ EffectiveOrganisationID[1] # NilUUID

\* C12: NewClient returns a client and no error exactly when, after the
\* environment and the options, the base url is present and not empty and
\* the organisation id is present and not the nil UUID; otherwise it returns
\* no client and ErrBaseUrlNotConfigured or ErrOrganisationIDNotConfigured.
\* A last WithBaseUrl("") over an environment base url makes it fail.
C12_ConstructionNeedsBaseUrlAndOrganisation ==
    Constructed =>
        /\ newClient.err = NoErr <=>
              (BaseUrlConfigured /\ OrganisationIDConfigured)
        /\ newClient.err = NoErr =>
              (newClient.config = <<config>> /\ pc = "idle")
        /\ newClient.err # NoErr =>
              /\ newClient.config = <<>>
              /\ pc = "failed"
              /\ newClient.err \in {ErrBaseUrlNotConfigured,
                                    ErrOrganisationIDNotConfigured}
        /\ ~BaseUrlConfigured => newClient.err = ErrBaseUrlNotConfigured
        /\ (/\ env.BASE_URL # <<>>
            /\ LastSetting("WithBaseUrl") = <<WithBaseUrl("")>>)
           => newClient.err = ErrBaseUrlNotConfigured

C12_Witness ==
    /\ pc = "failed"
    /\ env.BASE_URL = <<"envhost">>
    /\ env.ORGANISATION_ID = <<1>>
    /\ options = <<WithBaseUrl("")>>
    /\ newClient = [config |-> <<>>, err |-> ErrBaseUrlNotConfigured]

\* option i of the list changes no field but its own
SetsOnlyItsField(i) ==
    LET before == ApplyOptions(NewConfig(env), SubSeq(options, 1, i - 1))
        after == ApplyOptions(NewConfig(env), SubSeq(options, 1, i))
        field == CASE options[i].name = "WithBaseUrl" -> "BaseUrl"
                   [] options[i].name = "WithTimeout" -> "Timeout"
                   [] options[i].name = "WithMaxConns" -> "MaxConns"
                   [] options[i].name = "WithIdleConnTimeout" ->
                         "IdleConnTimeout"
                   [] options[i].name = "WithOrganisationID" ->
                         "OrganisationID"
    IN \A f \in DOMAIN before : f # field => after[f] = before[f]

\* C13: after NewClient every configuration field holds the value of the
\* last option that sets it, else the value of its environment variable,
\* else its default (5 s, 100, 90 s; no base url, no organisation id); each
\* option leaves the fields it does not set as they were.
C13_OptionsOverEnvironmentOverDefaults ==
    Constructed =>
        /\ config.BaseUrl = EffectiveBaseUrl
        /\ config.OrganisationID = EffectiveOrganisationID
        /\ config.Timeout = <<EffectiveTimeout>>
        /\ config.MaxConns = EffectiveMaxConns
        /\ config.IdleConnTimeout = <<EffectiveIdleConnTimeout>>
        /\ \A i \in 1..Len(options) : SetsOnlyItsField(i)

C13_Witness ==
    /\ pc = "idle"
    /\ env.BASE_URL = <<"envhost">>
    /\ env.ORGANISATION_ID = <<1>>
    /\ env.TIMEOUT = <<>>
    /\ env.MAX_CONNS = <<42>>
    /\ options = <<WithBaseUrl("testhost"), WithBaseUrl("%zz")>>
    /\ newClient.config = <<ClientConfig(<<1>>, <<"%zz">>, <<5>>, 42, <<90>>)>>
    /\ env.IDLE_CONN_TIMEOUT = <<>>

----------------------------------------------------------------------------
(* Enrichment transport *)

\* the send of the running Do succeeded
SendSucceeded == doPc \in {"returned", "read", "panicked"} /\ sent # NoSend
                 /\ sent.err = NoErr

\* Do returned a response and no error
DoSucceeded == doPc \in {"returned", "read"} /\ doResult.err = NoErr

\* C14: after a send that succeeded, the response handed to the after hook
\* has an empty body, so that a read of it yields no byte; and the caller's
\* read of the body of the returned response yields the whole payload,
\* whatever after hook was given and whatever it did.
C14_AfterHookSeesEmptyBody ==
    /\ SendSucceeded =>
          /\ Len(hookArg) = 1
          /\ hookArg[1].seen.Body = <<>>
          /\ hookArg[1].read = <<>>
    /\ DoSucceeded => Remaining(heap[doResult.resp[1].Body]) =
                         IF doPc = "read" THEN <<>> ELSE sent.resp[1].Body
    /\ doPc = "read" => callerRead = <<sent.resp[1].Body>>

C14_Witness ==
    /\ doPc = "read"
    /\ getAfterHook(enricher) = "ReadBody"
    /\ sent.resp[1].Body = <<"{", "}">>
    /\ hookArg[1].read = <<>>
    /\ callerRead = <<(<<"{", "}">>)>>

\* the number of times e is in the log
Count(e) == Cardinality({i \in 1..Len(events) : events[i] = e})

BeforeSupplied == Len(enricher) >= 1 /\ enricher[1].BeforeHook # <<>>

AfterSupplied == Len(enricher) >= 1 /\ enricher[1].AfterHook # <<>>

\* the log of a Do whose hooks ran as they should, up to the end of the send
Sending == (IF BeforeSupplied THEN <<"BeforeHook">> ELSE <<>>) \o <<"send">>

\* C15: a supplied before hook runs exactly once, before the send; when the
\* send fails no after hook runs and Do returns the failure; when it
\* succeeds a supplied after hook runs exactly once, after the send and
\* before Do returns; without hooks Do sends and returns.
C15_HookOrder ==
    /\ doPc = "send" => events = Sending
    /\ (doPc = "returned" /\ sent.err # NoErr) =>
          /\ events = Sending \o <<"return">>
          /\ doResult.err = sent.err
          /\ hookArg = <<>>
    /\ DoSucceeded =>
          /\ events = Sending
                      \o (IF AfterSupplied THEN <<"AfterHook">> ELSE <<>>)
                      \o <<"return">>
          /\ sent.err = NoErr
    /\ doPc = "panicked" =>
          \/ events = <<"BeforeHook", "panic">>
          \/ events = Sending \o <<"AfterHook", "panic">>
    /\ Count("BeforeHook") <= 1
    /\ Count("AfterHook") <= 1
    /\ Count("send") <= 1

C15_Witness ==
    /\ doPc = "returned"
    /\ Len(enricher) = 2
    /\ enricher[1] = RequestEnricher(<<>>, <<"Record">>, <<"Inspect">>)
    /\ sent.err = NoErr
    /\ events = <<"BeforeHook", "send", "AfterHook", "return">>

\* C16 as stated: whatever the after hook does, the response Do returns is
\* equal in status, headers, trailers and body to the response the send
\* produced.
C16_Original ==
    DoSucceeded =>
        LET seen == Seen(doResult.resp[1], heap) IN
        /\ seen.StatusCode = sent.resp[1].StatusCode
        /\ seen.Header = sent.resp[1].Header
        /\ seen.Trailer = sent.resp[1].Trailer
        /\ doPc = "returned" => seen.Body = sent.resp[1].Body

----------------------------------------------------------------------------
(* The client against the accounts API *)

\* the call has returned after the server answered it
Answered(op) ==
    pc = "idle" /\ call.op = op /\ Len(responses) >= 1

\* the server answered a call before the running one: that op, without error
Before(op) ==
    /\ previous # <<>>
    /\ previous[1].call.op = op
    /\ previous[1].result.err = NoErr
    /\ ~previous[1].result.panic

\* Create on a server without a record under the generated id returns the
\* record with that id, the organisation of the client and type "accounts"
CreateReturnsRecord ==
    (Answered("Create") /\ ~existed) =>
        /\ result.err = NoErr
        /\ ~result.panic
        /\ Len(result.rec) = 1
        /\ result.rec[1].ID = UUIDString(call.generated[1].id)
        /\ result.rec[1].OrganisationID =
              UUIDString(config.OrganisationID[1])
        /\ result.rec[1].Type = "accounts"
        /\ result.rec[1].Attributes = call.attributes

\* Fetch(A) after a Delete(A) or DeleteVersion(A, v) that succeeded fails
\* with ErrAccountNotFound
FetchAfterDeleteNotFound ==
    (/\ Completed("Fetch")
     /\ Before("Delete") \/ Before("DeleteVersion")
     /\ previous[1].call.accountID = call.accountID)
    => result = Result(<<>>, ErrAccountNotFound)

\* the running call is Fetch(A) and the call before it a Create that
\* returned the record with id A
FetchAfterCreate ==
    /\ Completed("Fetch")
    /\ Before("Create")
    /\ previous[1].call.generated[1].id = call.accountID

VersionOrZero(rec) == IF rec.Version = <<>> THEN 0 ELSE rec.Version[1]

\* the running call is DeleteVersion(id, v-or-0) and the call before it a
\* Fetch(id) that returned a record with version v
DeleteVersionAfterFetch ==
    /\ Completed("DeleteVersion")
    /\ Before("Fetch")
    /\ previous[1].call.accountID = call.accountID
    /\ call.version = VersionOrZero(previous[1].result.rec[1])

\* C18: Fetch(id) of a record the server holds succeeds, and the
\* DeleteVersion(id, v-or-0) that comes next, v being the fetched version,
\* is answered 204 and returns no error; so is Delete(id) of a record the
\* server holds.
C18_FetchThenDeleteVersionSucceeds ==
    /\ (Answered("Fetch") /\ existed) =>
          (result.err = NoErr /\ ~result.panic /\ Len(result.rec) = 1)
    /\ DeleteVersionAfterFetch =>
          /\ call.accountID # NilUUID
          /\ Len(responses) = 1
          /\ responses[1].StatusCode = StatusNoContent
          /\ result = Result(<<>>, NoErr)
          /\ server[UUIDString(call.accountID)] = <<>>
    /\ (Answered("Delete") /\ existed) =>
          /\ Len(responses) = 2
          /\ responses[2].StatusCode = StatusNoContent
          /\ result = Result(<<>>, NoErr)
          /\ server[UUIDString(call.accountID)] = <<>>

C18_Witness ==
    /\ DeleteVersionAfterFetch
    /\ call.accountID = 1
    /\ call.version = 1
    /\ previous[1].result.rec[1].Version = <<1>>
    /\ responses[1].StatusCode = StatusNoContent
    /\ result = Result(<<>>, NoErr)

----------------------------------------------------------------------------
(* Closing of response bodies *)

\* how often the running call closed the body of its k-th response
Closings(k) == Cardinality({i \in 1..Len(closes) : closes[i] = k})

\* C29: an operation that received a response closes the body of that
\* response exactly once before it returns, whatever the status, the decode
\* or the raw read did (a panic included); of a send that failed no body is
\* closed and none is read.  A Delete closes the body of its GET before it
\* dispatches its DELETE.
C29_BodyClosedExactlyOnce ==
    /\ \A i \in 1..Len(closes) : closes[i] \in 1..Len(responses)
    /\ \A k \in 1..Len(responses) :
          Closings(k) = IF responses[k].err = NoErr THEN 1 ELSE 0
    /\ Len(responses) >= 1 /\ responses[Len(responses)].err # NoErr
          => reads = <<>>
    /\ pc = "idle" /\ Len(responses) = 1 /\ responses[1].err # NoErr
          => closes = <<>>

\* a Delete that got two responses and returned
C29_Witness ==
    /\ Completed("Delete")
    /\ Len(responses) = 2
    /\ responses[2].err = NoErr
    /\ closes = <<1, 2>>

\* a Create that panicked on the raw read, its body closed all the same
C29_WitnessPanic ==
    /\ Completed("Create")
    /\ result.panic
    /\ closes = <<1>>

\* a Fetch whose send failed
C29_WitnessFailedSend ==
    /\ Completed("Fetch")
    /\ Len(responses) = 1
    /\ responses[1].err # NoErr
    /\ closes = <<>>

----------------------------------------------------------------------------
(* No retry, no swallowed failure *)

\* the requests a call hands to the transport: one for Create, Fetch and
\* DeleteVersion, a GET and then a DELETE for Delete
NoRetry ==
    /\ call.op \in {"Create", "Fetch", "DeleteVersion"} => Len(requests) <= 1
    /\ call.op = "Delete" =>
          /\ Len(requests) <= 2
          /\ Len(requests) >= 1 => requests[1].Method = "GET"
          /\ Len(requests) = 2 => requests[2].Method = "DELETE"
    /\ Len(responses) <= Len(requests)

\* the function that got the k-th response decodes a record from it
DecodesRecord(k) ==
    \/ requests[k].Method = "POST" /\ responses[k].StatusCode = StatusCreated
    \/ requests[k].Method = "GET" /\ responses[k].StatusCode = StatusOK

\* the running call saw a failure: a send that failed, an error status, or
\* a record that did not decode
FailureObserved ==
    \E k \in 1..Len(responses) :
        \/ responses[k].err # NoErr
        \/ /\ responses[k].err = NoErr
           /\ responses[k].StatusCode >= StatusBadRequest
        \/ /\ responses[k].err = NoErr
           /\ DecodesRecord(k)
           /\ DecodeErr(responses[k].Body) # NoErr

\* C21 as stated: a call of Create, Fetch or DeleteVersion dispatches at
\* most one request and a call of Delete at most two, a GET and then a
\* DELETE, whatever came back; and a call that observed a failure (a failed
\* send, an error status, a decode failure) returns a non-nil error.
C21_Original ==
    /\ NoRetry
    /\ (pc = "idle" /\ FailureObserved) =>
          /\ ~result.panic
          /\ result.err # NoErr

----------------------------------------------------------------------------
(* Record or error *)

\* C25: a call of Create or of Fetch that returned gives its caller either
\* a record and the nil error or no record and an error, never both and
\* never neither, on every path: nil id, generator failure, request that
\* cannot be built, failed send, each status of the switch, any other
\* status, decode failure.  (A call that panics returns nothing.)
C25_RecordXorError ==
    (pc = "idle" /\ call.op \in {"Create", "Fetch"} /\ ~result.panic) =>
        \/ result.rec # <<>> /\ result.err = NoErr
        \/ result.rec = <<>> /\ result.err # NoErr

\* a Create whose 201 body is a JSON object without "data": the record is
\* the zero record, not nil
C25_Witness ==
    /\ Completed("Create")
    /\ Responded
    /\ responses[1].StatusCode = StatusCreated
    /\ responses[1].Body = Body("object", <<>>, <<>>)
    /\ result = Result(<<ZeroAccountData>>, NoErr)

\* a Fetch whose 200 body does not decode
C25_WitnessDecodeFailure ==
    /\ Completed("Fetch")
    /\ Responded
    /\ responses[1].StatusCode = StatusOK
    /\ responses[1].Body = TruncatedBody
    /\ result = Result(<<>>, ErrUnexpectedEOF)

\* a Fetch answered with a status its switch does not name
C25_WitnessUnmapped ==
    /\ Completed("Fetch")
    /\ Responded
    /\ responses[1].StatusCode = StatusTeapot
    /\ result = Result(<<>>, ErrUnexpectedServerResponse)

----------------------------------------------------------------------------
(* Kind and message *)

\* what a call of op can return once its send came back with out
CallResults(op, out) ==
    CASE op = "Create" -> {r.res : r \in CreateResults(out)}
      [] op = "Fetch" -> {r.res : r \in FetchResults(out)}
      [] op = "DeleteVersion" -> {DeleteVersionResult(out)}

\* response resp with message m in its body instead of its own
WithMessage(resp, m) == [resp EXCEPT !.Body = Body("object", <<m>>, <<>>)]

\* the call ended on a status the taxonomy maps to a kind of its own and
\* on a body that carries a decodable message
ClassifiedWithMessage ==
    /\ AnsweredCall
    /\ DocumentedKind(call.op, responses[1].StatusCode)
          \notin {"success", ErrUnexpectedServerResponse}
    /\ responses[1].Body.kind = "object"
    /\ responses[1].Body.error_message # <<>>

\* C26: for an operation and a status that maps to a classified kind, the
\* returned error is the sentinel of the kind whatever decodable message the
\* body carries: the response with any other message in place of its own
\* gives the same returned value.
C26_ErrorIdentityIgnoresMessage ==
    ClassifiedWithMessage =>
        /\ result =
              Result(<<>>, DocumentedKind(call.op, responses[1].StatusCode))
        /\ \A m \in ErrorMessages :
              CallResults(call.op, WithMessage(responses[1], m)) = {result}

\* a Create answered 400 with one of two different messages
C26_Witness ==
    /\ ClassifiedWithMessage
    /\ call.op = "Create"
    /\ responses[1].StatusCode = StatusBadRequest
    /\ responses[1].Body.error_message = <<"backend error">>
    /\ WithMessage(responses[1], "invalid version") # responses[1]
    /\ result = Result(<<>>, ErrInvalidRequest)

----------------------------------------------------------------------------
(* The record of a 201 *)

\* a Create ended on status 201
Created ==
    /\ Completed("Create")
    /\ Responded
    /\ responses[1].StatusCode = StatusCreated

\* C27: on 201 Create returns the record its response body decodes to and
\* not the record it posted: the record under "data", the zero record when
\* the body has no "data", and no record with the decode error when the body
\* is empty or does not decode.
C27_CreateReturnsDecodedRecord ==
    Created =>
        LET body == responses[1].Body IN
        /\ ~result.panic
        /\ reads = <<>>
        /\ body.kind = "object" /\ body.data # <<>> =>
              result = Result(<<DecodeAccountData(body.data[1])>>, NoErr)
        /\ body.kind = "object" /\ body.data = <<>> =>
              result = Result(<<ZeroAccountData>>, NoErr)
        /\ body.kind = "empty" => result = Result(<<>>, EOF)
        /\ body.kind = "syntax" => result = Result(<<>>, ErrSyntax)
        /\ body.kind = "truncated" => result = Result(<<>>, ErrUnexpectedEOF)

\* the server's body carries another record than the one posted
C27_Witness ==
    /\ Created
    /\ responses[1].Body.kind = "object"
    /\ responses[1].Body.data # <<>>
    /\ result.rec # <<>>
    /\ result.rec[1] # requests[1].Body[1].data
    /\ result.rec[1].ID # requests[1].Body[1].data.ID

\* the 201 body is empty
C27_WitnessEmptyBody ==
    /\ Created
    /\ responses[1].Body = EmptyBody
    /\ result = Result(<<>>, EOF)

----------------------------------------------------------------------------
(* The context of a request *)

\* Do got as far as handing the request to the http client
Sent == doPc \in {"send", "returned", "read"} \/ request # NoRequest

\* enrichment field f of the first element of the list, <<>> when the list
\* is empty or the field is nil
FirstCtx == IF enricher = <<>> THEN <<>> ELSE enricher[1].Ctx

FirstBeforeHook == IF enricher = <<>> THEN <<>> ELSE enricher[1].BeforeHook

FirstAfterHook == IF enricher = <<>> THEN <<>> ELSE enricher[1].AfterHook

\* C24: the request goes out with the context of the first enrichment when
\* there is one and its context is not nil, and with context.TODO() (never
\* cancelled, no deadline) otherwise; a second enrichment contributes
\* neither its context nor its hooks.
C24_ContextOfFirstEnrichment ==
    Sent =>
        /\ request.ctx = IF FirstCtx = <<>> THEN "context.TODO"
                         ELSE FirstCtx[1]
        /\ Count("BeforeHook") = IF FirstBeforeHook = <<>> THEN 0 ELSE 1
        /\ Count("AfterHook") <= IF FirstAfterHook = <<>> THEN 0 ELSE 1
        /\ Len(enricher) = 2 /\ FirstAfterHook = <<>> /\ doPc = "returned"
              => heap = IF sent.resp = <<>> THEN NoHeap
                        ELSE Received(sent.resp[1])

\* two enrichments, the first one empty: the request has the background
\* context although the second enrichment has a context and hooks
C24_Witness ==
    /\ Len(enricher) = 2
    /\ enricher[1] = RequestEnricher(<<>>, <<>>, <<>>)
    /\ enricher[2].Ctx = <<"ctx2">>
    /\ doPc = "returned"
    /\ doResult.err = NoErr
    /\ request.ctx = "context.TODO"
    /\ events = <<"send", "return">>

\* one enrichment with a context
C24_WitnessCallerContext ==
    /\ Len(enricher) = 1
    /\ doPc = "returned"
    /\ request.ctx = "ctx"

----------------------------------------------------------------------------
(* Retried creates *)

\* the running call is a Create that the server answered, the call before
\* it a Create that the server accepted, both with the same generated id
RetriedCreate ==
    /\ Answered("Create")
    /\ Before("Create")
    /\ previous[1].status = StatusCreated
    /\ previous[1].call.generated[1].id = call.generated[1].id

\* C23: Create posts its record under the generated id, so a Create whose
\* id the server already holds collides there: the server answers 409 and
\* keeps the one record it has under that id, and Create returns no record
\* and an error.  After a Create that the server accepted, a Create with
\* the same generated id is such a call, and the record on the server is
\* still the one the first Create returned.
C23_RetriedCreateCollides ==
    /\ Answered("Create") =>
          /\ RequestID(requests[1]) = UUIDString(call.generated[1].id)
          /\ server[UUIDString(call.generated[1].id)] # <<>>
          /\ existed =>
                /\ responses[1].StatusCode = StatusConflict
                /\ result.rec = <<>>
                /\ ~result.panic
                /\ result.err \in {ErrUnexpectedServerResponse, EOF}
                /\ result.err # NoErr
    /\ RetriedCreate =>
          /\ existed
          /\ DecodeAccountData(server[UUIDString(call.generated[1].id)][1])
                = previous[1].result.rec[1]

\* a Create repeated with the id of the Create before it, with other
\* attributes
C23_Witness ==
    /\ RetriedCreate
    /\ call.generated[1].id = 1
    /\ call.attributes # previous[1].call.attributes
    /\ responses[1].StatusCode = StatusConflict
    /\ result = Result(<<>>, ErrUnexpectedServerResponse)

----------------------------------------------------------------------------
(* Calls with an enrichment: every request of a call goes through Do *)

\* the enrichments of a call whose hooks return: none, one, or one followed
\* by another
CallEnrichers ==
    {en \in EnricherLists :
        \A i \in 1..Len(en) :
            /\ en[i].BeforeHook \in {<<>>, <<"Record">>}
            /\ en[i].AfterHook \in {<<>>, <<"Inspect">>}}

\* what the http client answers in these calls: a failure, or a response
\* of known length
EnrichedOutcomes ==
    {TransportFailure}
    \cup {Response(s, b, BodyLen(b)) :
             s \in Statuses,
             b \in {EmptyBody, Body("object", <<>>, <<>>),
                    Body("object", <<>>, <<JSONRecord(<<UUIDString(1)>>,
                                                      <<MaxVersion>>)>>)}}

\* Delete that hands its enrichment to Fetch only
DeleteEnrichment_FetchOnly(en, f) == IF f = "DeleteVersion" THEN <<>> ELSE en

\* the enrichment Delete(accountID, en...) hands to f, its Fetch or its
\* DeleteVersion: en... both times
DeleteEnrichment(en, f) == en

\* Do(req, en...) up to c.client.Do: the before hook, then the send
BeforeSend(en, req) ==
    (IF getBeforeHook(en) = DefaultHook THEN <<>> ELSE <<"BeforeHook">>)
    \o <<req.Method>>

\* Do from the return of c.client.Do: the after hook when the send
\* succeeded
AfterSend(en, out) ==
    IF out.err # NoErr \/ getAfterHook(en) = DefaultHook
    THEN <<>> ELSE <<"AfterHook">>

\* the enrichment of the Do that function f of the running call calls:
\* that of the call, handed on by Delete when the call is a Delete
EnrichmentOf(op, en, f) ==
    IF op = "Delete" THEN DeleteEnrichment(en, f) ELSE en

\* a call starts with enrichment en; its first request, if it builds one,
\* goes through Do
StartEnriched(en) ==
    /\ enricher' = en
    /\ LET first == EnrichmentOf(call'.op, en, "Fetch") IN
          /\ events' = IF Len(requests') = 1
                       THEN BeforeSend(first, requests'[1]) ELSE <<>>
          /\ request' = IF Len(requests') = 1
                        THEN [ctx |-> getCtx(first)] ELSE NoRequest
    /\ UNCHANGED <<doPc, heap, sent, hookArg, doResult, callerRead>>
    /\ UNCHANGED <<configVars, serverVars, callerVars>>

\* Do returns out to the function that waits for it; the DeleteVersion of a
\* Delete then goes through Do in its turn
ReturnEnriched(out, f) ==
    /\ LET next == EnrichmentOf(call.op, enricher, "DeleteVersion") IN
          /\ events' = events
                       \o AfterSend(EnrichmentOf(call.op, enricher, f), out)
                       \o IF Len(requests') > Len(requests)
                          THEN BeforeSend(next, requests'[Len(requests')])
                          ELSE <<>>
          /\ request' = IF Len(requests') > Len(requests)
                        THEN [ctx |-> getCtx(next)] ELSE request
    /\ UNCHANGED <<enricher, doPc, heap, sent, hookArg, doResult,
                   callerRead>>
    /\ UNCHANGED <<configVars, serverVars, callerVars>>

EnrichedCreate(attributes, generated, en) ==
    CreateStep(attributes, generated) /\ StartEnriched(en)

EnrichedCreateReturn(out) ==
    CreateReturnStep(out) /\ ReturnEnriched(out, "Create")

EnrichedFetch(accountID, en) == FetchStep(accountID) /\ StartEnriched(en)

EnrichedFetchReturn(out) ==
    FetchReturnStep(out) /\ ReturnEnriched(out, "Fetch")

EnrichedDelete(accountID, en) == DeleteStep(accountID) /\ StartEnriched(en)

EnrichedDeleteVersion(accountID, version, en) ==
    DeleteVersionStep(accountID, version) /\ StartEnriched(en)

EnrichedDeleteVersionReturn(out) ==
    DeleteVersionReturnStep(out) /\ ReturnEnriched(out, "DeleteVersion")

NextEnrichedCalls ==
    \/ \E a \in AttributeValues, g \in Generated, en \in CallEnrichers :
          EnrichedCreate(a, g, en)
    \/ \E out \in EnrichedOutcomes : EnrichedCreateReturn(out)
    \/ \E id \in UUIDs, en \in CallEnrichers : EnrichedFetch(id, en)
    \/ \E out \in EnrichedOutcomes : EnrichedFetchReturn(out)
    \/ \E id \in UUIDs, en \in CallEnrichers : EnrichedDelete(id, en)
    \/ \E id \in UUIDs, v \in Versions, en \in CallEnrichers :
          EnrichedDeleteVersion(id, v, en)
    \/ \E out \in EnrichedOutcomes : EnrichedDeleteVersionReturn(out)

SpecEnrichedCalls == Init /\ [][NextEnrichedCalls]_vars

----------------------------------------------------------------------------
(* Hooks of a Delete *)

\* what the hooks of the call's enrichment add to the log: the before hook
\* before a send, the after hook after the k-th send when it succeeded
LoggedBefore == IF BeforeSupplied THEN <<"BeforeHook">> ELSE <<>>

LoggedAfter(k) ==
    IF AfterSupplied /\ responses[k].err = NoErr
    THEN <<"AfterHook">> ELSE <<>>

\* the log of a Delete up to where it stands
DeleteLog ==
    IF Len(requests) = 0 THEN <<>>
    ELSE LoggedBefore \o <<"GET">>
         \o (IF Len(responses) >= 1 THEN LoggedAfter(1) ELSE <<>>)
         \o (IF Len(requests) = 2 THEN LoggedBefore \o <<"DELETE">>
             ELSE <<>>)
         \o (IF Len(responses) = 2 THEN LoggedAfter(2) ELSE <<>>)

\* the Fetch of the running Delete failed: Delete returned without a DELETE
FetchStepFailed == Completed("Delete") /\ Len(requests) < 2

\* C28 as stated: a Delete with both hooks runs before hook, GET, after
\* hook, before hook, DELETE, after hook (an after hook only after a send
\* that succeeded); and whenever its Fetch fails, the before hook has run
\* exactly once and no DELETE was sent.
C28_Original ==
    (call.op = "Delete" /\ BeforeSupplied /\ AfterSupplied) =>
        /\ Len(requests) = 2 => events = DeleteLog
        /\ FetchStepFailed =>
              /\ Count("BeforeHook") = 1
              /\ Count("DELETE") = 0

\* C28: Delete hands its enrichment to Fetch and to DeleteVersion, so the
\* log of a Delete is: before hook, GET, after hook if the send succeeded,
\* and when Fetch returned a record, before hook, DELETE, after hook if the
\* send succeeded.  When Fetch fails on its response or on its send, the
\* before hook has run once and there is no DELETE; when Fetch fails before
\* it sends (nil id, URL that does not parse), no hook has run at all.
C28_DeleteHookOrder ==
    call.op = "Delete" =>
        /\ events = DeleteLog
        /\ Len(requests) = 2 =>
              /\ responses[1].err = NoErr
              /\ request.ctx = getCtx(enricher)
        /\ FetchStepFailed /\ Len(requests) = 1 =>
              /\ Count("BeforeHook") = IF BeforeSupplied THEN 1 ELSE 0
              /\ Count("DELETE") = 0
              /\ result.err # NoErr
        /\ FetchStepFailed /\ Len(requests) = 0 =>
              /\ events = <<>>
              /\ result.err \in {ErrNilUuid, ErrParseUrl}

\* a Delete with both hooks whose two sends succeeded
C28_Witness ==
    /\ Completed("Delete")
    /\ BeforeSupplied
    /\ AfterSupplied
    /\ Len(responses) = 2
    /\ responses[2].err = NoErr
    /\ events = <<"BeforeHook", "GET", "AfterHook",
                  "BeforeHook", "DELETE", "AfterHook">>

\* a Delete with both hooks whose Fetch got 404
C28_WitnessFetchFailed ==
    /\ FetchStepFailed
    /\ BeforeSupplied
    /\ AfterSupplied
    /\ result.err = ErrAccountNotFound
    /\ events = <<"BeforeHook", "GET", "AfterHook">>

----------------------------------------------------------------------------
(* A generator that fails *)

\* C30: when generateUUID returns an error, Create returns no record and
\* that error, builds no request and calls no Do: no hook runs, nothing is
\* sent, no response is received.
C30_GeneratorFailureNoRequest ==
    (call.op = "Create" /\ call.generated[1].err # NoErr) =>
        /\ pc = "idle"
        /\ result = Result(<<>>, call.generated[1].err)
        /\ requests = <<>>
        /\ responses = <<>>
        /\ events = <<>>
        /\ request = NoRequest

\* a Create with both hooks whose generator failed
C30_Witness ==
    /\ Completed("Create")
    /\ call.generated[1].err = ErrGenerate
    /\ BeforeSupplied
    /\ AfterSupplied
    /\ result = Result(<<>>, ErrGenerate)
    /\ events = <<>>

----------------------------------------------------------------------------
(* Callers that use one client at the same time *)

\* the locals of the call the client variables show
Locals ==
    [pc |-> pc, call |-> call, requests |-> requests,
     responses |-> responses, reads |-> reads, closes |-> closes,
     result |-> result]

\* Frame with the arguments of the call in a place all callers share
Frame_SharedArguments(c) == [saved[c] EXCEPT !.call = call]

\* the locals of caller c, who is not running: arguments, requests,
\* responses and results are locals of the functions of the call, and the
\* receiver is a copy of the client (value receiver)
Frame(c) == saved[c]

\* another caller runs on: the locals of the running call stay as they
\* are, those of caller c come back as c left them
Switch(c) ==
    /\ c \in Callers \ {running}
    /\ running' = c
    /\ saved' = [saved EXCEPT ![running] = Locals, ![c] = NoFrame]
    /\ pc' = Frame(c).pc
    /\ call' = Frame(c).call
    /\ requests' = Frame(c).requests
    /\ responses' = Frame(c).responses
    /\ reads' = Frame(c).reads
    /\ closes' = Frame(c).closes
    /\ result' = Frame(c).result
    /\ UNCHANGED <<config, configVars, enrichVars, serverVars>>

\* the arguments and the answers of the concurrent calls
ConcurrentIDs == {1, MaxUUID}

ConcurrentGenerated == {[id |-> u, err |-> NoErr] : u \in ConcurrentIDs}

ConcurrentRecord ==
    Body("object", <<>>, <<JSONRecord(<<UUIDString(1)>>, <<MaxVersion>>)>>)

ConcurrentOutcomes ==
    {TransportFailure,
     Response(StatusOK, ConcurrentRecord, BodyLen(ConcurrentRecord)),
     Response(StatusNotFound, EmptyBody, BodyLen(EmptyBody))}

NextConcurrent ==
    \/ \E c \in Callers : Switch(c)
    \/ \E g \in ConcurrentGenerated : Create("EUR", g)
    \/ \E out \in ConcurrentOutcomes : CreateReturn(out)
    \/ \E id \in ConcurrentIDs : Fetch(id)
    \/ \E out \in ConcurrentOutcomes : FetchReturn(out)
    \/ \E id \in ConcurrentIDs : Delete(id)
    \/ \E id \in ConcurrentIDs : DeleteVersion(id, 0)
    \/ \E out \in ConcurrentOutcomes : DeleteVersionReturn(out)

SpecConcurrent == Init /\ [][NextConcurrent]_vars

----------------------------------------------------------------------------
(* Independent calls *)

\* the locals of caller c, running or not
View(c) == IF c = running THEN Locals ELSE saved[c]

\* the first request of a call with the arguments of cl
FirstRequest(cl) ==
    CASE cl.op = "Create" ->
            postRequest(NewAccount(cl.generated[1].id, cl.attributes[1]))
      [] cl.op \in {"Fetch", "Delete"} -> getRequest(cl.accountID)
      [] cl.op = "DeleteVersion" -> deleteRequest(cl.accountID, cl.version)

\* what a Delete makes of the outcomes of its Fetch on out that are no
\* record: the error, or the panic
FetchFailures(out) ==
    {IF r.res.panic THEN Panic ELSE Result(<<>>, r.res.err) :
        r \in {x \in FetchResults(out) : x.res.panic \/ x.res.err # NoErr}}

\* frame f is one of a call that runs alone: its requests follow from its
\* own arguments and its own responses, its result from its own responses
AsIfAlone(f) ==
    /\ Len(f.responses) <= Len(f.requests)
    /\ Len(f.requests) <= IF f.call.op = "Delete" THEN 2 ELSE 1
    /\ f.call.op = "none" => f = NoFrame
    /\ Len(f.requests) >= 1 => f.requests[1] = FirstRequest(f.call)
    /\ Len(f.requests) = 2 =>
          /\ Len(f.responses) >= 1
          /\ f.requests[2] =
                deleteRequest(f.call.accountID,
                              FetchedVersionOrZero(f.responses[1].Body))
    /\ f.pc # "idle" => Len(f.responses) = Len(f.requests) - 1
    /\ (f.pc = "idle" /\ Len(f.requests) >= 1) =>
          /\ Len(f.responses) = Len(f.requests)
          /\ f.call.op \in {"Create", "Fetch", "DeleteVersion"} =>
                f.result \in CallResults(f.call.op, f.responses[1])
          /\ f.call.op = "Delete" /\ Len(f.requests) = 1 =>
                f.result \in FetchFailures(f.responses[1])
          /\ f.call.op = "Delete" /\ Len(f.requests) = 2 =>
                f.result = DeleteVersionResult(f.responses[2])

\* C22: no operation changes the configuration NewClient gave the client,
\* and the calls of callers that use the client at the same time are
\* independent: however their steps interleave, the requests of each call
\* and what it returns are those of the call running alone on its own
\* arguments and its own responses.
C22_ConcurrentCallsIndependent ==
    /\ config = newClient.config[1]
    /\ \A c \in Callers : AsIfAlone(View(c))

\* two callers blocked in their sends at the same time: one in the GET of a
\* Delete, the other in the DELETE of a Delete for another id
C22_Witness ==
    /\ running = 2
    /\ pc = "DeleteVersion"
    /\ call.op = "Delete"
    /\ saved[1].pc = "Fetch"
    /\ saved[1].call.op = "Delete"
    /\ saved[1].call.accountID # call.accountID

\* the first caller's Create returned after the second caller's Fetch that
\* started later
C22_WitnessOvertaken ==
    /\ running = 1
    /\ Completed("Create")
    /\ Len(responses) = 1
    /\ saved[2].pc = "idle"
    /\ saved[2].call.op = "Fetch"
    /\ Len(saved[2].responses) = 1

====
